---- MODULE Spec2Model ----
(***************************************************************************)
(* Model of the flow-resolution engine of hlasm_parser                     *)
(* (src/hlasm_parser/pipeline/light_parser.py, class LightParser).         *)
(*                                                                         *)
(* A source line is a record [label, op, args]: the text of columns 1-8    *)
(* (label = "" when the line starts with white space, "*" for a full-line  *)
(* comment), the opcode token, and the comma-separated operand field as a  *)
(* sequence of operand tokens.  An operand token is a record [k, v] whose  *)
(* kind k says which lexical class the text v belongs to:                  *)
(*   "sym"   an identifier of 1..8 characters that is not a register       *)
(*   "reg"   a register alias R0..R15                                      *)
(*   "num"   a decimal number                                              *)
(*   "param" a macro parameter reference &NAME                             *)
(*   "vcon"  an address constant =V(v)                                     *)
(*   "star"  the character *                                               *)
(*   "align" an alignment length 0F / 0H / 0D / 0B                         *)
(* The regular expressions of the source are predicates on these records.  *)
(***************************************************************************)
EXTENDS Integers, Sequences, FiniteSets, TLC

(***************************************************************************)
(* Bounds of the model.                                                    *)
(***************************************************************************)
\* longest entry block (number of call lines of the line range)
MaxMain == 3

\* longest entry block of the runs checked for termination
MaxLiveMain == 1

(***************************************************************************)
(* Generic helpers.                                                        *)
(***************************************************************************)
Put(f, key, val) == [x \in (DOMAIN f) \cup {key} |-> IF x = key THEN val ELSE f[x]]

Empty == [x \in {} |-> <<>>]

SetMin(S) == CHOOSE x \in S : \A y \in S : x <= y

\* LET x == v IN F(x), with v evaluated once
With(v, F(_)) == CHOOSE r \in {F(x) : x \in {v}} : TRUE

Range(s) == {s[i] : i \in 1..Len(s)}

Count(s, x) == Cardinality({i \in 1..Len(s) : s[i] = x})

\* index of the first occurrence of x in s (0 when absent)
IndexOf(s, x) == IF x \in Range(s) THEN SetMin({i \in 1..Len(s) : s[i] = x}) ELSE 0

\* list(dict.fromkeys(s)): drop repeats, keep first occurrences in order
Dedup(s) ==
  LET First == {i \in 1..Len(s) : \A j \in 1..(i - 1) : s[j] # s[i]}
  IN [k \in 1..Cardinality(First) |->
        s[CHOOSE i \in First : Cardinality({j \in First : j < i}) = k - 1]]

\* [F(x) for x in s]
Map(s, F(_)) == [i \in 1..Len(s) |-> F(s[i])]

Tok(k, v) == [k |-> k, v |-> v]

Ln(label, op, args) == [label |-> label, op |-> op, args |-> args]

(***************************************************************************)
(* Lexical classes of the strings of the model.                            *)
(***************************************************************************)
ParamNames == {"&P1", "&P2", "&LBL"}

\* [A-Za-z@#$][A-Za-z0-9@#$]{0,7}: every label and opcode of the model
\* other than the empty string, the comment marker and &-names
IsIdent(s) == s # "" /\ s # "*" /\ s \notin ParamNames

\* str.upper(): the only lower-case name of a run is the entry node
Upper(s) == IF s = "main" THEN "MAIN" ELSE s

\* line.startswith("*")
IsComment(l) == l.label = "*"

\* not hdr.strip(): a blank line
IsBlank(l) == l.label = "" /\ l.op = ""

(***************************************************************************)
(* The module-level regular expressions.                                   *)
(***************************************************************************)
GoOps == {"GO", "GOIF", "GOIFNOT"}

\* the \w+ prefix of an operand token ("" when it does not start with \w)
WordOf(t) == IF t.k \in {"sym", "reg", "num"} THEN t.v ELSE ""

\* _GO_RE: target of a GO / GOIF / GOIFNOT line, "" when no match
GoTarget(l) ==
  IF (l.label = "" \/ IsIdent(l.label)) /\ l.op \in GoOps /\ Len(l.args) >= 1
  THEN WordOf(l.args[1]) ELSE ""

\* _V_LINK_RE: L Rx,=V(NAME)
VLinkTarget(l) ==
  IF l.label = "" /\ l.op = "L" /\ Len(l.args) >= 2
     /\ WordOf(l.args[1]) # "" /\ l.args[2].k = "vcon" /\ l.args[2].v \notin ParamNames
  THEN l.args[2].v ELSE ""

\* _LINK_RE: L <name> with a single identifier operand
LinkTarget(l) ==
  IF l.label = "" /\ l.op = "L" /\ Len(l.args) = 1 /\ l.args[1].k \in {"sym", "reg"}
  THEN l.args[1].v ELSE ""

\* variant: no name is a register alias
IsRegisterNameNever(l) == FALSE

\* _REGISTER_RE applied to the text of a _LINK_RE match
IsRegisterName(l) == Len(l.args) >= 1 /\ l.args[1].k = "reg"

\* _OUT_RE, ^\s*(?:\w+\s+)?OUT\b: OUT as the first or the second word of the
\* line, the first word being a label or, after white space, an opcode
OutRe(l) ==
  \/ l.op = "OUT" /\ (l.label = "" \/ IsIdent(l.label))
  \/ l.label = "OUT"
  \/ l.label = "" /\ l.op # "" /\ Len(l.args) >= 1 /\ WordOf(l.args[1]) = "OUT"

\* _ANY_IN_RE
AnyInRe(l) == IsIdent(l.label) /\ l.op = "IN"

\* _in_pattern(name)
InRe(name, l) == l.label = name /\ l.op = "IN"

\* _MACRO_START_RE
MacroStartRe(l) == (l.op = "MACRO" /\ (l.label = "" \/ IsIdent(l.label))) \/ l.label = "MACRO"

\* _MEND_RE
MendRe(l) == (l.op = "MEND" /\ (l.label = "" \/ IsIdent(l.label))) \/ l.label = "MEND"

\* _EJECT_RE, ^\s*(?:[A-Za-z@#$]\S{0,7}\s+)?EJECT\b: EJECT as the first or
\* the second word of the line
EjectRe(l) ==
  \/ l.op = "EJECT" /\ (l.label = "" \/ IsIdent(l.label))
  \/ l.label = "EJECT"
  \/ l.label = "" /\ IsIdent(l.op) /\ Len(l.args) >= 1 /\ WordOf(l.args[1]) = "EJECT"

\* _DS_ALIGN_RE
DsAlignRe(l) == l.label = "" /\ l.op = "DS" /\ Len(l.args) >= 1 /\ l.args[1].k = "align"

\* _END_RE
EndRe(l) == l.label = "" /\ l.op = "END"

\* _CSECT_RE
CsectRe(l) == IsIdent(l.label) /\ l.op = "CSECT"

\* _DISPATCH_STYLE_RE: a number or a quoted literal
DispatchStyleRe(t) == t.k = "num"

(***************************************************************************)
(* Statement and operand splitting.                                        *)
(***************************************************************************)
\* text.split("*", 1)[0]: everything from the first * on is dropped
CutAtStar(args) ==
  LET S == {i \in 1..Len(args) : args[i].k = "star"}
  IN IF S = {} THEN args ELSE SubSeq(args, 1, SetMin(S) - 1)

\* _split_statement followed by _split_operands
SplitStatement(l) ==
  IF IsComment(l) \/ IsBlank(l) THEN [label |-> "", opcode |-> "", operands |-> <<>>]
  ELSE [label |-> l.label, opcode |-> l.op,
        operands |-> IF l.op = "" THEN <<>> ELSE CutAtStar(l.args)]

\* _looks_symbolic
LooksSymbolic(t) ==
  /\ t.v # ""
  /\ t.k # "param"
  /\ t.k # "vcon"
  /\ t.k # "reg"
  /\ ~DispatchStyleRe(t)
  /\ t.k = "sym"

(***************************************************************************)
(* Target extraction.                                                      *)
(***************************************************************************)
DirectEv(n) == [kind |-> "direct", name |-> Upper(n), targets |-> <<>>]

MacroEv(n, ts) == [kind |-> "macro", name |-> n, targets |-> ts]

\* [o.upper() for o in s if _looks_symbolic(o)]
SelectSym(s) ==
  LET Text(t) == Upper(t.v)
  IN Map(SelectSeq(s, LooksSymbolic), Text)

\* by_param.get(param, ""): the operand bound to the last formal of that name
BoundActual(macro, operands, param) ==
  LET S == {i \in 1..Len(macro.parameters) :
              i <= Len(operands) /\ Upper(macro.parameters[i]) = Upper(param)}
  IN IF S = {} THEN Tok("sym", "")
     ELSE operands[CHOOSE i \in S : \A j \in S : j <= i]

\* the operands bound to the call parameters, in call-parameter order
BoundTargets(macro, operands) ==
  [i \in 1..Len(macro.call_params) |-> BoundActual(macro, operands, macro.call_params[i])]

\* variant: every symbolic operand of the call is a target
TargetsAllSymbolic(macro, operands) == Dedup(SelectSym(operands))

\* _targets_from_known_macro_call
TargetsFromKnownMacroCall(macro, operands) ==
  LET out == SelectSym(BoundTargets(macro, operands))
  IN IF out # <<>> THEN Dedup(out) ELSE Dedup(SelectSym(operands))

\* _targets_from_dispatch_style_macro
TargetsFromDispatchStyleMacro(operands) ==
  IF Len(operands) < 4 THEN <<>>
  ELSE IF operands[1].k # "num" \/ operands[2].k # "num" \/ operands[4].k # "num" THEN <<>>
  ELSE IF ~LooksSymbolic(operands[3]) THEN <<>>
  ELSE <<Upper(operands[3].v)>>

\* the EP=name operands of a LOAD / XCTL / LINK line, in order
EpTargets(ops) ==
  LET IsEp(t) == t.k = "ep" /\ t.v # ""
      Ev(t) == DirectEv(t.v)
  IN Map(SelectSeq(ops, IsEp), Ev)

DirectEvs(names) == [i \in 1..Len(names) |-> DirectEv(names[i])]

\* the body of the loop of _find_calls_ordered for one line: the events the
\* line offers, before the suppression of repeats
LineCalls(l, macro_catalog, parent_name) ==
  IF IsComment(l) THEN <<>>
  ELSE IF GoTarget(l) # "" THEN <<DirectEv(GoTarget(l))>>
  ELSE IF VLinkTarget(l) # "" THEN <<DirectEv(VLinkTarget(l))>>
  ELSE IF LinkTarget(l) # "" /\ ~IsRegisterName(l) THEN <<DirectEv(LinkTarget(l))>>
  ELSE LET st == SplitStatement(l)
           op_u == Upper(st.opcode)
           operands == st.operands
       IN IF st.opcode = "" THEN <<>>
          ELSE IF st.label \in ParamNames THEN <<>>
          ELSE IF op_u \in DOMAIN macro_catalog /\ op_u # Upper(parent_name)
               THEN <<MacroEv(op_u, TargetsFromKnownMacroCall(macro_catalog[op_u], operands))>>
          ELSE IF op_u = "COPY" /\ operands # <<>>
               THEN IF operands[1].k \in {"sym", "reg"}
                    THEN <<DirectEv(operands[1].v)>> ELSE <<>>
          ELSE IF op_u \in {"LOAD", "XCTL", "LINK"} /\ operands # <<>>
               THEN EpTargets(operands)
          ELSE IF op_u \in {"CALL", "CALLR"} /\ operands # <<>>
               THEN IF LooksSymbolic(operands[1])
                    THEN <<DirectEv(operands[1].v)>> ELSE <<>>
          ELSE DirectEvs(TargetsFromDispatchStyleMacro(operands))
               \o (IF op_u = "EQU" /\ operands # <<>> /\ LooksSymbolic(operands[1])
                   THEN <<DirectEv(operands[1].v)>> ELSE <<>>)

\* the events of evs, each with the branch of the loop body that offers it
Tagged(cat, evs) == [i \in 1..Len(evs) |-> [cat |-> cat, ev |-> evs[i]]]

\* the branches of the loop body that are keyed by the opcode alone: COPY,
\* LOAD / XCTL / LINK, CALL / CALLR, then the dispatch row and the alias row
OpcodeEvents(op_u, operands) ==
  IF op_u = "COPY" /\ operands # <<>>
  THEN IF operands[1].k \in {"sym", "reg"}
       THEN Tagged("copy", <<DirectEv(operands[1].v)>>) ELSE <<>>
  ELSE IF op_u \in {"LOAD", "XCTL", "LINK"} /\ operands # <<>>
       THEN Tagged("call", EpTargets(operands))
  ELSE IF op_u \in {"CALL", "CALLR"} /\ operands # <<>>
       THEN IF LooksSymbolic(operands[1])
            THEN Tagged("call", <<DirectEv(operands[1].v)>>) ELSE <<>>
  ELSE Tagged("dispatch", DirectEvs(TargetsFromDispatchStyleMacro(operands)))
       \o (IF op_u = "EQU" /\ operands # <<>> /\ LooksSymbolic(operands[1])
           THEN Tagged("alias", <<DirectEv(operands[1].v)>>) ELSE <<>>)

\* variant: the macro branch does not end the iteration
LineEventsFallThrough(l, macro_catalog, parent_name) ==
  IF IsComment(l) THEN <<>>
  ELSE IF GoTarget(l) # "" THEN Tagged("jump", <<DirectEv(GoTarget(l))>>)
  ELSE IF VLinkTarget(l) # "" THEN Tagged("jump", <<DirectEv(VLinkTarget(l))>>)
  ELSE IF LinkTarget(l) # "" /\ ~IsRegisterName(l)
       THEN Tagged("jump", <<DirectEv(LinkTarget(l))>>)
  ELSE LET st == SplitStatement(l)
           op_u == Upper(st.opcode)
       IN IF st.opcode = "" THEN <<>>
          ELSE IF st.label \in ParamNames THEN <<>>
          ELSE (IF op_u \in DOMAIN macro_catalog /\ op_u # Upper(parent_name)
                THEN Tagged("macro", <<MacroEv(op_u,
                       TargetsFromKnownMacroCall(macro_catalog[op_u], st.operands))>>)
                ELSE <<>>)
               \o OpcodeEvents(op_u, st.operands)

\* the body of the loop of _find_calls_ordered for one line, branch by
\* branch: the events the line offers, each with the branch that offers it
LineEvents(l, macro_catalog, parent_name) ==
  IF IsComment(l) THEN <<>>
  ELSE IF GoTarget(l) # "" THEN Tagged("jump", <<DirectEv(GoTarget(l))>>)
  ELSE IF VLinkTarget(l) # "" THEN Tagged("jump", <<DirectEv(VLinkTarget(l))>>)
  ELSE IF LinkTarget(l) # "" /\ ~IsRegisterName(l)
       THEN Tagged("jump", <<DirectEv(LinkTarget(l))>>)
  ELSE LET st == SplitStatement(l)
           op_u == Upper(st.opcode)
       IN IF st.opcode = "" THEN <<>>
          ELSE IF st.label \in ParamNames THEN <<>>
          ELSE IF op_u \in DOMAIN macro_catalog /\ op_u # Upper(parent_name)
               THEN Tagged("macro", <<MacroEv(op_u,
                      TargetsFromKnownMacroCall(macro_catalog[op_u], st.operands))>>)
          ELSE OpcodeEvents(op_u, st.operands)

\* _emit_direct and the seen_macro_keys test: of the events a line offers,
\* those that are appended to result
RECURSIVE EmitNew(_, _, _)
EmitNew(result, offered, acc) ==
  IF offered = <<>> THEN acc
  ELSE IF \/ Head(offered).ev \in Range(result)
          \/ \E i \in 1..Len(acc) : acc[i].ev = Head(offered).ev
       THEN EmitNew(result, Tail(offered), acc)
       ELSE EmitNew(result, Tail(offered), Append(acc, Head(offered)))

\* the events offered by the first n lines, in line order
RECURSIVE CallsUpTo(_, _, _, _)
CallsUpTo(lines, macro_catalog, parent_name, n) ==
  IF n = 0 THEN <<>>
  ELSE CallsUpTo(lines, macro_catalog, parent_name, n - 1)
       \o LineCalls(lines[n], macro_catalog, parent_name)

AllLineCalls(lines, macro_catalog, parent_name) ==
  CallsUpTo(lines, macro_catalog, parent_name, Len(lines))

\* variant: two passes, the direct calls first and the macro calls after them
FindCallsDirectFirst(lines, macro_catalog, parent_name) ==
  LET IsDirect(ev) == ev.kind = "direct"
      IsMacro(ev) == ev.kind = "macro"
      Passes(all) == SelectSeq(all, IsDirect) \o SelectSeq(all, IsMacro)
  IN With(Dedup(AllLineCalls(lines, macro_catalog, parent_name)), Passes)

\* _find_calls_ordered: seen_direct and seen_macro_keys suppress an event
\* equal to an earlier one (same kind and name, and same targets)
FindCallsOrdered(lines, macro_catalog, parent_name) ==
  With(AllLineCalls(lines, macro_catalog, parent_name), Dedup)

(***************************************************************************)
(* The searchable files.  A file is a record [stem, lines, readable];      *)
(* files[1] is the driver and files[2..] are the files under deps_dir in   *)
(* the sorted order of _search_files.  Reading a file that is not readable *)
(* raises OSError.                                                         *)
(***************************************************************************)
\* read_text(...).splitlines() inside try / except OSError: continue: a
\* file that cannot be read is passed over
ReadLines(f) == IF f.readable THEN f.lines ELSE <<>>

\* index of the first line from position from on that satisfies P, 0 if none
FirstIdx(lines, from, P(_)) ==
  IF \E k \in from..Len(lines) : P(lines[k])
  THEN CHOOSE k \in from..Len(lines) :
         P(lines[k]) /\ \A j \in from..(k - 1) : ~P(lines[j])
  ELSE 0

NoHeader == [name |-> "", operands |-> <<>>]

\* _parse_macro_header.  Form A (the MACRO keyword and the name on one
\* line) is modelled for "MACRO NAME"; form B is the classic prototype.
ParseMacroHeader(l) ==
  IF IsBlank(l) \/ IsComment(l) THEN NoHeader
  ELSE IF l.op = "MACRO" \/ l.label = "MACRO"
       THEN IF l.op = "MACRO" /\ Len(l.args) = 1 /\ l.args[1].k \in {"sym", "reg"}
            THEN [name |-> Upper(l.args[1].v), operands |-> <<>>]
            ELSE IF l.label = "MACRO" /\ IsIdent(l.op)
                 THEN [name |-> Upper(l.op), operands |-> l.args]
                 ELSE NoHeader
  ELSE IF l.label \in ParamNames /\ l.op # ""
       THEN IF IsIdent(l.op) THEN [name |-> Upper(l.op), operands |-> l.args] ELSE NoHeader
  ELSE IF l.label # ""
       THEN IF IsIdent(l.label)
            THEN [name |-> Upper(l.label),
                  operands |-> IF l.op = "" THEN <<>>
                               ELSE <<Tok(IF l.op \in ParamNames THEN "param" ELSE "sym", l.op)>>]
            ELSE NoHeader
  ELSE IF IsIdent(l.op) THEN [name |-> Upper(l.op), operands |-> l.args] ELSE NoHeader

\* the formal parameters of a prototype: the operands that start with "&"
FormalParams(ops) ==
  LET IsParam(t) == t.k = "param"
      Text(t) == Upper(t.v)
  IN Map(SelectSeq(ops, IsParam), Text)

\* go_param_re, v_param_re and l_param_re of _infer_macro_call_params:
\* the parameter a body line jumps to or links, "" when none
CallParamOf(l) ==
  IF (l.label = "" \/ IsIdent(l.label)) /\ l.op \in GoOps /\ Len(l.args) >= 1
     /\ l.args[1].k = "param"
  THEN Upper(l.args[1].v)
  ELSE IF l.label = "" /\ l.op = "L" /\ Len(l.args) >= 2 /\ WordOf(l.args[1]) # ""
          /\ l.args[2].k = "vcon" /\ l.args[2].v \in ParamNames
  THEN Upper(l.args[2].v)
  ELSE IF l.label = "" /\ l.op = "L" /\ Len(l.args) = 1 /\ l.args[1].k = "param"
  THEN Upper(l.args[1].v)
  ELSE ""

\* _infer_macro_call_params: the formals that body lines jump to or link,
\* in the order of their first use
InferMacroCallParams(macro_lines, formal_params) ==
  LET Wanted(key) == key # "" /\ key \in Range(formal_params)
  IN Dedup(SelectSeq(Map(macro_lines, CallParamOf), Wanted))

IsHeaderCandidate(l) == ~IsBlank(l) /\ ~IsComment(l)

\* variant: a later definition of a name replaces the earlier one
RECURSIVE ScanMacrosLastWins(_, _, _, _)
ScanMacrosLastWins(lines, src, i, macros) ==
  IF i > Len(lines) THEN macros
  ELSE IF ~MacroStartRe(lines[i]) THEN ScanMacrosLastWins(lines, src, i + 1, macros)
  ELSE IF FirstIdx(lines, i + 1, MendRe) = 0 THEN ScanMacrosLastWins(lines, src, i + 1, macros)
  ELSE
    LET inl == ParseMacroHeader(lines[i])
        header_i == IF inl.name # "" THEN i ELSE FirstIdx(lines, i + 1, IsHeaderCandidate)
    IN IF header_i = 0 THEN macros
       ELSE
         LET hdr == IF inl.name # "" THEN inl ELSE ParseMacroHeader(lines[header_i])
         IN IF hdr.name = "" THEN ScanMacrosLastWins(lines, src, header_i + 1, macros)
            ELSE
              LET params == FormalParams(hdr.operands)
                  m == FirstIdx(lines, header_i + 1, MendRe)
                  j == IF m = 0 THEN Len(lines) + 1 ELSE m
                  block == SubSeq(lines, i, IF m = 0 THEN Len(lines) ELSE m)
                  def == [name |-> hdr.name, source_file |-> src,
                          header_line |-> lines[header_i], parameters |-> params,
                          lines |-> block,
                          call_params |-> InferMacroCallParams(block, params)]
              IN ScanMacrosLastWins(lines, src, j + 1, Put(macros, hdr.name, def))

\* the while loop of _discover_macros over one file, from line i on
RECURSIVE ScanMacros(_, _, _, _)
ScanMacros(lines, src, i, macros) ==
  IF i > Len(lines) THEN macros
  ELSE IF ~MacroStartRe(lines[i]) THEN ScanMacros(lines, src, i + 1, macros)
  ELSE IF FirstIdx(lines, i + 1, MendRe) = 0 THEN ScanMacros(lines, src, i + 1, macros)
  ELSE
    LET inl == ParseMacroHeader(lines[i])
        header_i == IF inl.name # "" THEN i ELSE FirstIdx(lines, i + 1, IsHeaderCandidate)
    IN IF header_i = 0 THEN macros
       ELSE
         LET hdr == IF inl.name # "" THEN inl ELSE ParseMacroHeader(lines[header_i])
         IN IF hdr.name = "" THEN ScanMacros(lines, src, header_i + 1, macros)
            ELSE
              LET params == FormalParams(hdr.operands)
                  m == FirstIdx(lines, header_i + 1, MendRe)
                  j == IF m = 0 THEN Len(lines) + 1 ELSE m
                  block == SubSeq(lines, i, IF m = 0 THEN Len(lines) ELSE m)
                  def == [name |-> hdr.name, source_file |-> src,
                          header_line |-> lines[header_i], parameters |-> params,
                          lines |-> block,
                          call_params |-> InferMacroCallParams(block, params)]
              IN ScanMacros(lines, src, j + 1,
                            IF hdr.name \in DOMAIN macros THEN macros
                            ELSE Put(macros, hdr.name, def))

\* _discover_macros: the first definition of a name wins
RECURSIVE DiscoverMacrosFrom(_, _, _)
DiscoverMacrosFrom(fs, k, macros) ==
  IF k > Len(fs) THEN macros
  ELSE DiscoverMacrosFrom(fs, k + 1, ScanMacros(ReadLines(fs[k]), fs[k].stem, 1, macros))

DiscoverMacros(fs) == DiscoverMacrosFrom(fs, 1, Empty)

\* all lines of the first k searchable files, in search order
RECURSIVE LinesUpTo(_, _)
LinesUpTo(fs, k) == IF k = 0 THEN <<>> ELSE LinesUpTo(fs, k - 1) \o ReadLines(fs[k])

AllLines(fs) == LinesUpTo(fs, Len(fs))

\* an EQU line with a label and a symbolic right-hand side
IsAliasLine(l) ==
  /\ SplitStatement(l).label # ""
  /\ Upper(SplitStatement(l).opcode) = "EQU"
  /\ SplitStatement(l).operands # <<>>
  /\ LooksSymbolic(SplitStatement(l).operands[1])

\* _discover_equ_aliases: a later definition of a label replaces an earlier
EquAliasesOf(lines) ==
  LET A == {i \in 1..Len(lines) : IsAliasLine(lines[i])}
      LastOf(lab) == CHOOSE i \in A : /\ Upper(lines[i].label) = lab
                                      /\ \A j \in A : Upper(lines[j].label) = lab => j <= i
  IN [lab \in {Upper(lines[i].label) : i \in A} |-> Upper(lines[LastOf(lab)].args[1].v)]

DiscoverEquAliases(fs) == EquAliasesOf(AllLines(fs))

(***************************************************************************)
(* Block / subroutine resolver.                                            *)
(***************************************************************************)
NotFound == [found |-> FALSE, lines |-> <<>>]

Found(ls) == [found |-> TRUE, lines |-> ls]

\* first file (in search order, from k on) with a line satisfying P, 0 if none
FirstFile(fs, k, P(_)) ==
  IF \E f \in k..Len(fs) : FirstIdx(ReadLines(fs[f]), 1, P) # 0
  THEN CHOOSE f \in k..Len(fs) :
         /\ FirstIdx(ReadLines(fs[f]), 1, P) # 0
         /\ \A g \in k..(f - 1) : FirstIdx(ReadLines(fs[g]), 1, P) = 0
  ELSE 0

\* the IN block that starts at line i: up to the OUT line (included), or
\* to just before the next IN line, or to the end of the file
InBlock(lines, i) ==
  LET Stop(l) == OutRe(l) \/ AnyInRe(l)
      Cut(j) == IF j = 0 THEN SubSeq(lines, i, Len(lines))
                ELSE IF OutRe(lines[j]) THEN SubSeq(lines, i, j)
                ELSE SubSeq(lines, i, j - 1)
  IN With(FirstIdx(lines, i + 1, Stop), Cut)

\* the EQU candidate that starts at line i: the line alone when the EQU has
\* a right-hand side left after the cut at "*", else up to EJECT (included)
EquBlock(lines, i) ==
  LET st == SplitStatement(lines[i])
      ops == IF Upper(st.opcode) = "EQU" THEN st.operands ELSE <<>>
      Cut(j) == IF j = 0 THEN SubSeq(lines, i, Len(lines)) ELSE SubSeq(lines, i, j)
  IN IF ops # <<>> THEN <<lines[i]>>
     ELSE With(FirstIdx(lines, i + 1, EjectRe), Cut)

\* the block that Block(lines, i) cuts at the first line, in search order,
\* that satisfies P
FirstBlock(fs, P(_), Block(_, _)) ==
  LET InFile(f) ==
        LET At(i) == Found(Block(ReadLines(fs[f]), i))
        IN IF f = 0 THEN NotFound ELSE With(FirstIdx(ReadLines(fs[f]), 1, P), At)
  IN With(FirstFile(fs, 1, P), InFile)

\* s back to front
Reverse(s) == [i \in 1..Len(s) |-> s[Len(s) + 1 - i]]

\* variant: the files are searched in the opposite order
FindSubroutineLastFile(fs, name) ==
  LET IsIn(l) == InRe(name, l)
      IsEqu(l) == l.label = name /\ l.op = "EQU"
      OrEqu(r) == IF r.found THEN r ELSE FirstBlock(Reverse(fs), IsEqu, EquBlock)
  IN With(FirstBlock(Reverse(fs), IsIn, InBlock), OrEqu)

\* _find_subroutine: an IN block of any file wins over the first EQU anchor
FindSubroutine(fs, name) ==
  LET IsIn(l) == InRe(name, l)
      IsEqu(l) == l.label = name /\ l.op = "EQU"
      OrEqu(r) == IF r.found THEN r ELSE FirstBlock(fs, IsEqu, EquBlock)
  IN With(FirstBlock(fs, IsIn, InBlock), OrEqu)

\* the CSECT block that starts at line i
CsectBlock(lines, i, name) ==
  LET Other(l) == CsectRe(l) /\ l.label # name
      Stop(l) == DsAlignRe(l) \/ Other(l) \/ EndRe(l) \/ EjectRe(l)
      Cut(j) == IF j = 0 THEN SubSeq(lines, i, Len(lines))
                ELSE IF DsAlignRe(lines[j]) THEN SubSeq(lines, i, j)
                ELSE IF Other(lines[j]) THEN SubSeq(lines, i, j - 1)
                ELSE IF EndRe(lines[j]) THEN SubSeq(lines, i, j)
                ELSE SubSeq(lines, i, j - 1)
  IN With(FirstIdx(lines, i + 1, Stop), Cut)

\* _find_csect_block
FindCsectBlock(fs, name) ==
  LET IsCs(l) == l.label = name /\ l.op = "CSECT"
      Block(lines, i) == CsectBlock(lines, i, name)
  IN FirstBlock(fs, IsCs, Block)

\* _find_copybook_file: the first file under deps_dir whose stem is the name
\* and that can be read
FindCopybookFile(fs, name) ==
  LET S == {k \in 2..Len(fs) : Upper(fs[k].stem) = Upper(name) /\ fs[k].readable}
  IN IF S = {} THEN NotFound ELSE Found(fs[SetMin(S)].lines)

\* _classify_file_content
ClassifyFileContent(name, lines) ==
  LET MacroStmt(l) == l.op = "MACRO" /\ l.args = <<>> /\ (l.label = "" \/ IsIdent(l.label))
      SubIn(l) == InRe(name, l)
      Pgm(l) == l.label = "&PGMNAME" \/ l.op = "&PGMNAME"
                \/ \E i \in 1..Len(l.args) : l.args[i].v = "&PGMNAME"
  IN IF FirstIdx(lines, 1, MacroStmt) # 0 THEN "macro"
     ELSE IF FirstIdx(lines, 1, SubIn) # 0 THEN "sub"
     ELSE IF FirstIdx(lines, 1, Pgm) # 0 THEN "asmprogram"
     ELSE "copybook"

\* what the resolution cascade of _resolve_target decides for a target:
\* the lines, the kind and the tag ("" = node_tags is left alone)
Resolution(found, lines, kind, tag, macro_node) ==
  [found |-> found, lines |-> lines, kind |-> kind, tag |-> tag, macro_node |-> macro_node]

\* strategy 3: the copybook file, classified by its content
FromCopybook(fs, target) ==
  LET Classified(cb) ==
        LET Kind(ck) == Resolution(TRUE, cb.lines, ck, IF ck = "sub" THEN "" ELSE ck,
                                   ck = "macro")
        IN IF cb.found THEN With(ClassifyFileContent(target, cb.lines), Kind)
           ELSE Resolution(FALSE, <<>>, "sub", "", FALSE)
  IN With(FindCopybookFile(fs, target), Classified)

\* strategy 2, then 3
FromCsect(fs, target) ==
  LET Csect(cs) == IF cs.found THEN Resolution(TRUE, cs.lines, "csect", "csect", FALSE)
                   ELSE FromCopybook(fs, target)
  IN With(FindCsectBlock(fs, target), Csect)

\* strategy 1, then 2, then 3
FromSubroutine(fs, target) ==
  LET Sub(sub) == IF sub.found THEN Resolution(TRUE, sub.lines, "sub", "", FALSE)
                  ELSE FromCsect(fs, target)
  IN With(FindSubroutine(fs, target), Sub)

\* variant: the control section is searched before the IN / EQU block
CascadeCsectFirst(fs, cat, target) ==
  LET Sub(sub) == IF sub.found THEN Resolution(TRUE, sub.lines, "sub", "", FALSE)
                  ELSE FromCopybook(fs, target)
      Csect(cs) == IF cs.found THEN Resolution(TRUE, cs.lines, "csect", "csect", FALSE)
                   ELSE With(FindSubroutine(fs, target), Sub)
  IN IF target \in DOMAIN cat
     THEN Resolution(TRUE, cat[target].lines, "macro", "macro", FALSE)
     ELSE With(FindCsectBlock(fs, target), Csect)

\* variant: the macro catalog is not consulted
CascadeNoCatalog(fs, cat, target) == FromSubroutine(fs, target)

\* the resolution cascade of _resolve_target: the macro catalog first
Cascade(fs, cat, target) ==
  IF target \in DOMAIN cat
  THEN Resolution(TRUE, cat[target].lines, "macro", "macro", FALSE)
  ELSE FromSubroutine(fs, target)

(***************************************************************************)
(* State of one LightParser instance and of its run().                     *)
(***************************************************************************)
VARIABLES
  files,           \* the driver and the files under deps_dir (input)
  start_line,      \* argument of run (input)
  end_line,        \* argument of run (input)
  pc,              \* position of run: "init", "loop", "calls", "done"
  chunks,          \* self.chunks: name -> lines
  flow,            \* self.flow: name -> ordered child names
  missing,         \* self.missing
  macros,          \* self.macros: name -> MacroDefinition
  equ_aliases,     \* self.equ_aliases
  macro_nodes,     \* self.macro_nodes
  node_tags,       \* self.node_tags: name -> tags
  chunk_kinds,     \* self.chunk_kinds: name -> kind
  queue,           \* local queue of run: (name, lines) pairs
  visited,         \* local visited of run
  parent,          \* the pair being processed by the while loop
  calls,           \* the events of the for loop still to process
  save_log,        \* names of the chunk files written to output_dir, in order
  scan_log,        \* names dequeued and scanned, in order
  resolve_log,     \* names for which the resolution cascade ran, in order
  catalog_written, \* macros.json has been written
  nested,          \* the tree that to_nested_flow returned (NoTree before the call)
  cur,             \* local cur of _resolve_equ_alias
  seen,            \* local seen of _resolve_equ_alias
  emitted,         \* _find_calls_ordered: per line scanned, the events it appended
  alias_name       \* argument name of _resolve_equ_alias

(***************************************************************************)
(* State of the components outside LightParser.                            *)
(***************************************************************************)
VARIABLES
  op_text,    \* the operand text handed to the two operand splitters
  split_out,       \* what LightParser._split_operands returned for it
  parse_out,       \* what InstructionParser._parse_operands returned for it
  lines_in,        \* LabelBlockPass.run: argument lines
  line_no,         \* LabelBlockPass.run: number of lines the for loop has taken
  root,            \* LabelBlockPass.run: root.children
  current,         \* LabelBlockPass.run: 0 for the root, else the position of
                   \* the current block in root.children
  id_gen,          \* label_block._id_gen: the next id
  edges,           \* HLASMDependencyMap._edges: src -> set of dest
  has_nx,          \* dependency_map._HAS_NX
  all_deps,        \* the last call of get_all_dependencies: the graph, the
                   \* argument and what it returned
  disk,            \* the source files that exist: path -> chunks of the file
  results,         \* analyze_with_dependencies: local results
  missing_deps,    \* HlasmAnalysis.missing_deps
  stack,           \* the active calls of _analyze_recursive, innermost last
  depth_log,       \* the files of the "Max recursion depth" warnings logged
  an_pc            \* analyze_with_dependencies: "idle", "running", "returned"

operand_vars == <<op_text, split_out, parse_out>>

label_vars == <<lines_in, line_no, root, current, id_gen>>

depmap_vars == <<edges, has_nx, all_deps>>

analysis_vars == <<disk, results, missing_deps, stack, depth_log, an_pc>>

others == <<operand_vars, label_vars, depmap_vars, analysis_vars>>

\* a function has not been called yet
NotRun == [run |-> FALSE]

\* neither operand splitter has been called
NoOperands ==
  /\ op_text = <<>>
  /\ split_out = NotRun
  /\ parse_out = NotRun

\* LabelBlockPass.run has not been called
NoLabelPass ==
  /\ lines_in = <<>>
  /\ line_no = 0
  /\ root = <<>>
  /\ current = 0
  /\ id_gen = 1

\* no HLASMDependencyMap has been made
NoDepMap ==
  /\ edges = [x \in {} |-> {}]
  /\ has_nx = FALSE
  /\ all_deps = NotRun

\* no HlasmAnalysis has been made
NoAnalysis ==
  /\ disk = [x \in {} |-> <<>>]
  /\ results = [x \in {} |-> <<>>]
  /\ missing_deps = <<>>
  /\ stack = <<>>
  /\ depth_log = <<>>
  /\ an_pc = "idle"

\* none of the components outside LightParser has been called
NoOthers == NoOperands /\ NoLabelPass /\ NoDepMap /\ NoAnalysis

vars == <<files, start_line, end_line, pc, chunks, flow, missing, macros, equ_aliases,
          macro_nodes, node_tags, chunk_kinds, queue, visited, parent, calls,
          save_log, scan_log, resolve_log, catalog_written, nested, cur, seen,
          emitted, alias_name, others>>

\* the variables that run leaves alone
views == <<nested, cur, seen, emitted, alias_name, others>>

\* the part of the state that _resolve_target and _save_chunk update
Eng == [chunks |-> chunks, flow |-> flow, missing |-> missing,
        macro_nodes |-> macro_nodes, node_tags |-> node_tags,
        chunk_kinds |-> chunk_kinds, queue |-> queue, visited |-> visited,
        save_log |-> save_log, resolve_log |-> resolve_log]

\* variant: a chunk is written only for a block that calls something
SaveChunkOfCaller(e, name, lines) ==
  IF FindCallsOrdered(lines, macros, name) = <<>> THEN e
  ELSE [e EXCEPT !.chunks = Put(@, name, lines), !.save_log = Append(@, name)]

\* _save_chunk
SaveChunk(e, name, lines) ==
  [e EXCEPT !.chunks = Put(@, name, lines), !.save_log = Append(@, name)]

\* dict.setdefault(key, [])
SetDefault(f, key) == IF key \in DOMAIN f THEN f ELSE Put(f, key, <<>>)

\* list append guarded by "not in"
AppendNew(s, x) == IF x \in Range(s) THEN s ELSE Append(s, x)

\* variant: the target gets no flow entry of its own
MarkedNoFlow(e, target, c) ==
  [e EXCEPT !.visited = @ \cup {target},
            !.resolve_log = Append(@, target),
            !.node_tags = IF c.tag = "" THEN @ ELSE Put(@, target, <<c.tag>>),
            !.chunk_kinds = Put(@, target, c.kind),
            !.macro_nodes = IF c.macro_node THEN @ \cup {target} ELSE @]

\* _resolve_target up to flow.setdefault: the target is visited and has its
\* kind, its tag and a flow entry
Marked(e, target, c) ==
  [e EXCEPT !.visited = @ \cup {target},
            !.resolve_log = Append(@, target),
            !.node_tags = IF c.tag = "" THEN @ ELSE Put(@, target, <<c.tag>>),
            !.chunk_kinds = Put(@, target, c.kind),
            !.macro_nodes = IF c.macro_node THEN @ \cup {target} ELSE @,
            !.flow = SetDefault(@, target)]

\* variant: a located target is stored but not put on the queue
KeptNotQueued(e, target, c) == SaveChunk(Marked(e, target, c), target, c.lines)

\* the end of _resolve_target for a target that was located
Kept(e, target, c) ==
  [SaveChunk(Marked(e, target, c), target, c.lines) EXCEPT
     !.queue = Append(@, [name |-> target, lines |-> c.lines])]

\* the end of _resolve_target for a target that no strategy located
Lost(e, target, c) == [Marked(e, target, c) EXCEPT !.missing = Append(@, target)]

\* variant: a target that is not located is not recorded
ResolveTargetUnreported(e, target) ==
  LET Settle(c) == IF c.found THEN Kept(e, target, c) ELSE Marked(e, target, c)
  IN IF target \in e.visited THEN e
     ELSE With(Cascade(files, macros, target), Settle)

\* variant: a visited target is resolved again
ResolveTargetAgain(e, target) ==
  LET Settle(c) == IF c.found THEN Kept(e, target, c) ELSE Lost(e, target, c)
  IN With(Cascade(files, macros, target), Settle)

\* variant: missing keeps only the last target that was not located
ResolveTargetLastOnly(e, target) ==
  LET Settle(c) == IF c.found THEN Kept(e, target, c)
                   ELSE [Marked(e, target, c) EXCEPT !.missing = <<target>>]
  IN IF target \in e.visited THEN e
     ELSE With(Cascade(files, macros, target), Settle)

\* variant: a target that is not located ends the traversal
ResolveTargetHalts(e, target) ==
  LET Settle(c) == IF c.found THEN Kept(e, target, c)
                   ELSE [Lost(e, target, c) EXCEPT !.queue = <<>>]
  IN IF target \in e.visited THEN e
     ELSE With(Cascade(files, macros, target), Settle)

\* _resolve_target
ResolveTarget(e, target) ==
  LET Settle(c) == IF c.found THEN Kept(e, target, c) ELSE Lost(e, target, c)
  IN IF target \in e.visited THEN e
     ELSE With(Cascade(files, macros, target), Settle)

\* the loop over call["targets"] of a macro event
RECURSIVE MacroTargets(_, _, _)
MacroTargets(e, macro_name, targets) ==
  LET Rest(e2) == MacroTargets(e2, macro_name, Tail(targets))
  IN IF targets = <<>> THEN e
     ELSE With(ResolveTarget([e EXCEPT !.flow = [@ EXCEPT ![macro_name] =
                                                   AppendNew(@, Head(targets))]],
                             Head(targets)),
               Rest)

\* variant: the macro is put on the queue at every macro event
ProcessMacroRequeue(e, par, call) ==
  LET macro_name == call.name
      e1 == [e EXCEPT !.flow = SetDefault([@ EXCEPT ![par] = AppendNew(@, macro_name)],
                                          macro_name),
                      !.node_tags = Put(@, macro_name, <<"macro">>),
                      !.chunk_kinds = Put(@, macro_name, "macro")]
      e2 == [e1 EXCEPT !.visited = @ \cup {macro_name},
                       !.queue = Append(@, [name |-> macro_name,
                                            lines |-> macros[macro_name].lines])]
  IN MacroTargets(e2, macro_name, call.targets)

\* the branch of run for an event of kind "macro"
ProcessMacro(e, par, call) ==
  LET macro_name == call.name
      e1 == [e EXCEPT !.flow = SetDefault([@ EXCEPT ![par] = AppendNew(@, macro_name)],
                                          macro_name),
                      !.node_tags = Put(@, macro_name, <<"macro">>),
                      !.chunk_kinds = Put(@, macro_name, "macro")]
      e2 == IF macro_name \in e1.visited THEN e1
            ELSE [e1 EXCEPT !.visited = @ \cup {macro_name},
                            !.queue = Append(@, [name |-> macro_name,
                                                 lines |-> macros[macro_name].lines])]
  IN MacroTargets(e2, macro_name, call.targets)

\* the branch of run for an event of kind "direct"
ProcessDirect(e, par, call) ==
  ResolveTarget([e EXCEPT !.flow = [@ EXCEPT ![par] = AppendNew(@, call.name)]], call.name)

\* _extract_range: all_lines[max(0, start - 1): end]
ExtractRange(lines, start, end) ==
  SubSeq(lines, IF start < 1 THEN 1 ELSE start, IF end > Len(lines) THEN Len(lines) ELSE end)

\* _write_macro_chunks: every cataloged macro becomes a chunk of kind macro
RECURSIVE WriteMacroChunks(_, _, _)
WriteMacroChunks(e, cat, names) ==
  IF names = {} THEN e
  ELSE LET n == CHOOSE x \in names : TRUE
       IN WriteMacroChunks(
            SaveChunk([e EXCEPT !.chunk_kinds = Put(@, cat[n].name, "macro")],
                      cat[n].name, cat[n].lines),
            cat, names \ {n})

(***************************************************************************)
(* to_nested_flow: the nested call tree.  A fully expanded node is a       *)
(* record [name, type, tags, source_lines, calls], a reference stub is a   *)
(* record [name, ref]; every child node also has the field seq.            *)
(***************************************************************************)
\* dict.get(key, default)
Get(f, key, default) == IF key \in DOMAIN f THEN f[key] ELSE default

\* chunks_dict.get(name, {}) followed by the info.get calls of build_node
InfoOf(e, name) ==
  IF name \in DOMAIN e.chunks
  THEN [type |-> Get(e.chunk_kinds, name, "sub"),
        tags |-> Get(e.node_tags, name, <<>>),
        source_lines |-> e.chunks[name]]
  ELSE [type |-> "sub", tags |-> <<>>, source_lines |-> <<>>]

\* child_node["seq"] = seq_num
WithSeq(node, seq_num) == Put(node, "seq", seq_num)

RECURSIVE BuildNode(_, _, _)

\* variant: a sibling does not see the names its earlier siblings expanded
RECURSIVE BuildCallsPerBranch(_, _, _, _, _)
BuildCallsPerBranch(e, children, k, expanded, acc) ==
  IF k > Len(children) THEN [calls |-> acc, expanded |-> expanded]
  ELSE LET c == BuildNode(e, children[k], expanded)
       IN BuildCallsPerBranch(e, children, k + 1, expanded,
                              Append(acc, WithSeq(c.node, k)))

\* variant: seq counts from 0
RECURSIVE BuildCallsFromZero(_, _, _, _, _)
BuildCallsFromZero(e, children, k, expanded, acc) ==
  IF k > Len(children) THEN [calls |-> acc, expanded |-> expanded]
  ELSE LET c == BuildNode(e, children[k], expanded)
       IN BuildCallsFromZero(e, children, k + 1, c.expanded,
                             Append(acc, WithSeq(c.node, k - 1)))

\* the for loop of build_node from child k on; expanded is shared by all
\* calls of build_node, so it is passed on from child to child
RECURSIVE BuildCalls(_, _, _, _, _)
BuildCalls(e, children, k, expanded, acc) ==
  IF k > Len(children) THEN [calls |-> acc, expanded |-> expanded]
  ELSE LET c == BuildNode(e, children[k], expanded)
       IN BuildCalls(e, children, k + 1, c.expanded, Append(acc, WithSeq(c.node, k)))

\* build_node: the node of name and the set expanded after the call
BuildNode(e, name, expanded) ==
  IF name \in expanded
  THEN [node |-> [name |-> name, ref |-> TRUE], expanded |-> expanded]
  ELSE LET r == BuildCalls(e, Get(e.flow, name, <<>>), 1, expanded \cup {name}, <<>>)
           info == InfoOf(e, name)
       IN [node |-> [name |-> name, type |-> info.type, tags |-> info.tags,
                     source_lines |-> info.source_lines, calls |-> r.calls],
           expanded |-> r.expanded]

\* the "tree" entry of the result of to_nested_flow
NestedTree(e) == BuildNode(e, "main", {}).node

(***************************************************************************)
(* Inputs: the driver, the dependency files and the line range.            *)
(***************************************************************************)
Sym(n) == Tok("sym", n)

Br14 == Ln("", "BR", <<Tok("num", "14")>>)

GoLine(n) == Ln("", "GO", <<Sym(n)>>)

\* the call lines an entry block is made of
MainLineSet ==
  { GoLine("A"),
    Ln("", "L", <<Sym("B")>>),
    Ln("", "M", <<Sym("A"), Sym("B")>>),
    Ln("", "M", <<Sym("B"), Tok("reg", "R5")>>),
    GoLine("M") }

\* the entry blocks of up to n call lines, and one with a line that calls nothing
MainBlocks(n) == {<<Br14>>} \cup UNION {[1..k -> MainLineSet] : k \in 0..n}

InOut(n, body) == <<Ln(n, "IN", <<>>)>> \o body \o <<Ln("", "OUT", <<>>)>>

CsectOf(n) == <<Ln(n, "CSECT", <<>>), Ln("", "MVI", <<Sym("FLAG")>>),
                Ln("", "DS", <<Tok("align", "0F")>>)>>

ADefs == {"in", "cs", "in_cs", "cs_in", "same"}

BDefs == {"none", "in", "file"}

MDefs == {"none", "callparam", "plain", "both"}

\* macro M with formals &P1,&P2 whose body jumps to &P2
MacroCallParam ==
  << Ln("", "MACRO", <<>>),
     Ln("&LBL", "M", <<Tok("param", "&P1"), Tok("param", "&P2")>>),
     Ln("", "GO", <<Tok("param", "&P2")>>),
     Ln("", "MEND", <<>>) >>

\* macro M with formal &P1 whose body calls B and then A directly
MacroPlain ==
  << Ln("", "MACRO", <<>>),
     Ln("", "M", <<Tok("param", "&P1")>>),
     GoLine("B"),
     GoLine("A"),
     Ln("", "MEND", <<>>) >>

DriverLines(main, a, b, m) ==
  <<Ln("PROG", "CSECT", <<>>)>> \o main \o <<Br14>>
  \o (IF a \in {"cs_in", "same", "cs"} THEN CsectOf("A") ELSE <<>>)
  \o (IF a \in {"in", "in_cs", "same"} THEN InOut("A", <<GoLine("B")>>) ELSE <<>>)
  \o (IF b = "in" THEN InOut("B", <<GoLine("A")>>) ELSE <<>>)
  \o (IF m \in {"callparam", "both"} THEN MacroCallParam ELSE <<>>)
  \o (IF m = "plain" THEN MacroPlain ELSE <<>>)
  \o (IF m = "both" THEN InOut("M", <<Br14>>) \o CsectOf("M") ELSE <<>>)

LibLines(a) ==
  IF a = "in_cs" THEN CsectOf("A")
  ELSE IF a = "cs_in" THEN InOut("A", <<GoLine("B")>>)
  ELSE <<>>

File(stem, lines) == [stem |-> stem, lines |-> lines, readable |-> TRUE]

\* driver first, then the files under deps_dir in sorted order
World(main, a, b, m) ==
  <<File("DRIVER", DriverLines(main, a, b, m))>>
  \o (IF b = "file" THEN <<File("B", <<Br14, GoLine("A")>>)>> ELSE <<>>)
  \o (IF a \in {"in_cs", "cs_in"} THEN <<File("LIB", LibLines(a))>> ELSE <<>>)

NoPair == [name |-> "", lines |-> <<>>]

\* to_nested_flow has not been called
NoTree == [name |-> ""]

\* LightParser.__init__, for a driver whose entry block is one of blocks
InitWith(blocks) ==
  /\ \E main \in blocks, a \in ADefs, b \in BDefs, m \in MDefs :
       /\ files = World(main, a, b, m)
       /\ start_line = 2
       /\ end_line = 1 + Len(main)
  /\ pc = "init"
  /\ chunks = Empty
  /\ flow = Empty
  /\ missing = <<>>
  /\ macros = Empty
  /\ equ_aliases = Empty
  /\ macro_nodes = {}
  /\ node_tags = [x \in {"main"} |-> <<"entry">>]
  /\ chunk_kinds = [x \in {"main"} |-> "sub"]
  /\ queue = <<>>
  /\ visited = {}
  /\ parent = NoPair
  /\ calls = <<>>
  /\ save_log = <<>>
  /\ scan_log = <<>>
  /\ resolve_log = <<>>
  /\ catalog_written = FALSE
  /\ nested = NoTree
  /\ cur = ""
  /\ seen = {}
  /\ emitted = <<>>
  /\ alias_name = ""
  /\ NoOthers

Init == InitWith(MainBlocks(MaxMain))

LiveInit == InitWith(MainBlocks(MaxLiveMain))

SetEng(e) ==
  /\ chunks' = e.chunks
  /\ flow' = e.flow
  /\ missing' = e.missing
  /\ macro_nodes' = e.macro_nodes
  /\ node_tags' = e.node_tags
  /\ chunk_kinds' = e.chunk_kinds
  /\ queue' = e.queue
  /\ visited' = e.visited
  /\ save_log' = e.save_log
  /\ resolve_log' = e.resolve_log

\* run, lines 168-179: catalog the macros and the aliases, write the macro
\* chunks, extract and save the entry block, start the queue
Start ==
  /\ pc = "init"
  /\ files[1].readable
  /\ \E cat \in {DiscoverMacros(files)} :
     \E main_lines \in {ExtractRange(files[1].lines, start_line, end_line)} :
     \E e1 \in {SaveChunk(WriteMacroChunks([Eng EXCEPT !.macro_nodes = DOMAIN cat],
                                          cat, DOMAIN cat),
                          "main", main_lines)} :
        /\ macros' = cat
        /\ equ_aliases' = DiscoverEquAliases(files)
        /\ SetEng([e1 EXCEPT !.flow = Put(e1.flow, "main", <<>>),
                             !.queue = <<[name |-> "main", lines |-> main_lines]>>,
                             !.visited = {"main"}])
  /\ pc' = "loop"
  /\ UNCHANGED <<files, start_line, end_line, parent, calls, scan_log, catalog_written>>
  /\ UNCHANGED views

\* run, lines 181-184: take the next pair and scan its lines for calls
Dequeue ==
  /\ pc = "loop"
  /\ queue # <<>>
  /\ parent' = Head(queue)
  /\ queue' = Tail(queue)
  /\ calls' = FindCallsOrdered(Head(queue).lines, macros, Head(queue).name)
  /\ scan_log' = Append(scan_log, Head(queue).name)
  /\ pc' = IF calls' = <<>> THEN "loop" ELSE "calls"
  /\ UNCHANGED <<files, start_line, end_line, chunks, flow, missing, macros, equ_aliases,
                 macro_nodes, node_tags, chunk_kinds, visited, save_log, resolve_log,
                 catalog_written>>
  /\ UNCHANGED views

\* run, lines 185-198: one macro event
MacroEvent ==
  /\ pc = "calls"
  /\ Head(calls).kind = "macro"
  /\ \E e \in {ProcessMacro(Eng, parent.name, Head(calls))} : SetEng(e)
  /\ calls' = Tail(calls)
  /\ pc' = IF calls' = <<>> THEN "loop" ELSE "calls"
  /\ UNCHANGED <<files, start_line, end_line, macros, equ_aliases, parent, scan_log,
                 catalog_written>>
  /\ UNCHANGED views

\* run, lines 199-203: one direct event
DirectEvent ==
  /\ pc = "calls"
  /\ Head(calls).kind = "direct"
  /\ \E e \in {ProcessDirect(Eng, parent.name, Head(calls))} : SetEng(e)
  /\ calls' = Tail(calls)
  /\ pc' = IF calls' = <<>> THEN "loop" ELSE "calls"
  /\ UNCHANGED <<files, start_line, end_line, macros, equ_aliases, parent, scan_log,
                 catalog_written>>
  /\ UNCHANGED views

\* run, line 205: the queue is empty, write the macro catalog and return
Finish ==
  /\ pc = "loop"
  /\ queue = <<>>
  /\ catalog_written' = TRUE
  /\ pc' = "done"
  /\ UNCHANGED <<files, start_line, end_line, chunks, flow, missing, macros, equ_aliases,
                 macro_nodes, node_tags, chunk_kinds, queue, visited, parent, calls,
                 save_log, scan_log, resolve_log>>
  /\ UNCHANGED views

Next == Start \/ Dequeue \/ MacroEvent \/ DirectEvent \/ Finish

\* to_nested_flow, called on the parser after run has returned
ToNestedFlow ==
  /\ pc = "done"
  /\ nested = NoTree
  /\ nested' = NestedTree(Eng)
  /\ UNCHANGED <<files, start_line, end_line, pc, chunks, flow, missing, macros,
                 equ_aliases, macro_nodes, node_tags, chunk_kinds, queue, visited,
                 parent, calls, save_log, scan_log, resolve_log, catalog_written,
                 cur, seen, emitted, alias_name, others>>

NestedNext == Next \/ ToNestedFlow

Spec == Init /\ [][Next]_vars

\* run followed by a call of to_nested_flow
NestedSpec == Init /\ [][NestedNext]_vars

\* run is a sequential loop: whenever a step is possible it is taken
LiveSpec == LiveInit /\ [][Next]_vars /\ WF_vars(Next)

(***************************************************************************)
(* _find_calls_ordered on its own: the loop over the lines of one block,   *)
(* one line per step.                                                      *)
(***************************************************************************)
\* longest block of lines that is scanned
MaxScan == 2

\* macro L with formal &P1 whose body jumps to &P1
MacroL ==
  << Ln("", "MACRO", <<>>),
     Ln("", "L", <<Tok("param", "&P1")>>),
     Ln("", "GO", <<Tok("param", "&P1")>>),
     Ln("", "MEND", <<>>) >>

Num(n) == Tok("num", n)

\* the lines a scanned block is made of: every form the loop body tells apart
ScanLineSet ==
  { GoLine("A"),
    Ln("", "L", <<Tok("reg", "R5")>>),
    Ln("", "L", <<Num("5")>>),
    Ln("", "L", <<Sym("A")>>),
    Ln("", "L", <<Tok("reg", "R5"), Tok("vcon", "A")>>),
    Ln("", "L", <<Num("1"), Num("2"), Sym("B"), Num("3")>>),
    Ln("", "M", <<Sym("A"), Sym("B")>>),
    Ln("", "M", <<Num("1"), Num("2"), Sym("A"), Num("3")>>),
    Ln("", "COPY", <<Sym("BOOK")>>),
    Ln("", "LOAD", <<Tok("ep", "MOD")>>),
    Ln("", "CALL", <<Sym("SUB")>>),
    Ln("X", "EQU", <<Sym("A")>>),
    Ln("X", "EQU", <<Num("1"), Num("2"), Sym("B"), Num("3")>>),
    Ln("X", "EQU", <<Tok("star", "*")>>),
    Ln("*", "GO", <<Sym("A")>>) }

ScanBlocks == UNION {[1..k -> ScanLineSet] : k \in 1..MaxScan}

\* the catalogs of a source with no macro, with M, with L, with both
ScanCatalogs ==
  { DiscoverMacros(<<File("DRIVER", ms)>>) :
      ms \in {<<>>, MacroCallParam, MacroL, MacroCallParam \o MacroL} }

\* a call _find_calls_ordered(lines, macro_catalog, parent_name)
ExtractInit ==
  /\ \E lines \in ScanBlocks, name \in {"main", "M"} :
       parent = [name |-> name, lines |-> lines]
  /\ macros \in ScanCatalogs
  /\ files = <<File("DRIVER", <<>>)>>
  /\ start_line = 1
  /\ end_line = 0
  /\ pc = "scan"
  /\ chunks = Empty
  /\ flow = Empty
  /\ missing = <<>>
  /\ equ_aliases = Empty
  /\ macro_nodes = {}
  /\ node_tags = [x \in {"main"} |-> <<"entry">>]
  /\ chunk_kinds = [x \in {"main"} |-> "sub"]
  /\ queue = <<>>
  /\ visited = {}
  /\ calls = <<>>
  /\ save_log = <<>>
  /\ scan_log = <<>>
  /\ resolve_log = <<>>
  /\ catalog_written = FALSE
  /\ nested = NoTree
  /\ cur = ""
  /\ seen = {}
  /\ emitted = <<>>
  /\ alias_name = ""
  /\ NoOthers

\* one iteration of the for loop of _find_calls_ordered
ScanLine ==
  /\ pc = "scan"
  /\ Len(emitted) < Len(parent.lines)
  /\ \E new \in {EmitNew(calls, LineEvents(parent.lines[Len(emitted) + 1],
                                            macros, parent.name), <<>>)} :
       /\ emitted' = Append(emitted, new)
       /\ calls' = calls \o [i \in 1..Len(new) |-> new[i].ev]
  /\ pc' = IF Len(emitted) + 1 = Len(parent.lines) THEN "scanned" ELSE "scan"
  /\ UNCHANGED <<files, start_line, end_line, chunks, flow, missing, macros,
                 equ_aliases, macro_nodes, node_tags, chunk_kinds, queue, visited,
                 parent, save_log, scan_log, resolve_log, catalog_written,
                 nested, cur, seen, alias_name, others>>

ExtractNext == ScanLine

ExtractSpec == ExtractInit /\ [][ExtractNext]_vars

(***************************************************************************)
(* Runs over a file set in which the target A can be defined in several    *)
(* files at once.                                                          *)
(***************************************************************************)
\* the state of a parser that has just been constructed, the input apart
FreshParser ==
  /\ pc = "init"
  /\ chunks = Empty
  /\ flow = Empty
  /\ missing = <<>>
  /\ macros = Empty
  /\ equ_aliases = Empty
  /\ macro_nodes = {}
  /\ node_tags = [x \in {"main"} |-> <<"entry">>]
  /\ chunk_kinds = [x \in {"main"} |-> "sub"]
  /\ queue = <<>>
  /\ visited = {}
  /\ parent = NoPair
  /\ calls = <<>>
  /\ save_log = <<>>
  /\ scan_log = <<>>
  /\ resolve_log = <<>>
  /\ catalog_written = FALSE
  /\ nested = NoTree
  /\ cur = ""
  /\ seen = {}
  /\ emitted = <<>>
  /\ alias_name = ""

Fresh == FreshParser /\ NoOthers

\* a line that tells which file a block was cut from
Mark(stem) == Ln("", "MVI", <<Sym(stem)>>)

\* what a file can hold for A: nothing, an IN block, an anchor table, a CSECT
SDefs == {"none", "in", "equ", "cs"}

DefOf(kind, stem) ==
  IF kind = "in" THEN InOut("A", <<Mark(stem)>>)
  ELSE IF kind = "equ"
       THEN <<Ln("A", "EQU", <<Tok("star", "*")>>), Mark(stem), Ln("", "EJECT", <<>>)>>
  ELSE IF kind = "cs"
       THEN <<Ln("A", "CSECT", <<>>), Mark(stem), Ln("", "DS", <<Tok("align", "0F")>>)>>
  ELSE <<>>

\* the entry blocks of the searches: a direct call of A, a macro call with A
\* bound to the call parameter
SearchMains == {<<GoLine("A")>>, <<Ln("", "M", <<Sym("B"), Sym("A")>>)>>}

\* the driver, then the files under deps_dir in sorted order: A (when there
\* is a copybook of that name), LIB1, LIB2
SearchWorld(main, d, book, l1, l2) ==
  <<File("DRIVER", <<Ln("PROG", "CSECT", <<>>)>> \o main \o <<Br14>>
                   \o DefOf(d, "DRIVER")
                   \o (IF main = <<GoLine("A")>> THEN <<>> ELSE MacroCallParam))>>
  \o (IF book THEN <<File("A", <<Mark("A")>>)>> ELSE <<>>)
  \o <<File("LIB1", DefOf(l1, "LIB1")), File("LIB2", DefOf(l2, "LIB2"))>>

SearchInit ==
  /\ \E main \in SearchMains, d \in SDefs, book \in BOOLEAN, l1 \in SDefs, l2 \in SDefs :
       /\ files = SearchWorld(main, d, book, l1, l2)
       /\ start_line = 2
       /\ end_line = 1 + Len(main)
  /\ Fresh

\* run over the file sets of SearchWorld
SearchSpec == SearchInit /\ [][Next]_vars

(***************************************************************************)
(* Runs over file sets some of whose files cannot be read.                 *)
(***************************************************************************)
\* longest entry block of the runs with unreadable files
MaxIoMain == 1

\* the file set fs with the files at the positions of bad unreadable
Unreadable(fs, bad) == [k \in 1..Len(fs) |-> [fs[k] EXCEPT !.readable = k \notin bad]]

IoInit ==
  /\ \E main \in MainBlocks(MaxIoMain), a \in {"in", "in_cs", "cs_in"},
        b \in {"in", "file"}, m \in {"none", "callparam"} :
       /\ \E bad \in SUBSET (1..Len(World(main, a, b, m))) :
            files = Unreadable(World(main, a, b, m), bad)
       /\ start_line = 2
       /\ end_line = 1 + Len(main)
  /\ Fresh

\* run, lines 168-173, for a driver that cannot be read: the catalogs are
\* built from the files that can be read, the macro chunks are written, and
\* the read_text of _extract_range raises OSError, which run does not catch
StartRaises ==
  /\ pc = "init"
  /\ ~files[1].readable
  /\ \E cat \in {DiscoverMacros(files)} :
       /\ macros' = cat
       /\ equ_aliases' = DiscoverEquAliases(files)
       /\ SetEng(WriteMacroChunks([Eng EXCEPT !.macro_nodes = DOMAIN cat], cat, DOMAIN cat))
  /\ pc' = "raised"
  /\ UNCHANGED <<files, start_line, end_line, parent, calls, scan_log, catalog_written>>
  /\ UNCHANGED views

IoNext == Next \/ StartRaises

\* run over file sets with unreadable files
IoSpec == IoInit /\ [][IoNext]_vars

(***************************************************************************)
(* Runs over file sets in which macro M can be defined several times.      *)
(***************************************************************************)
\* macro M with formals &P1,&P2 whose body jumps to &P1
MacroFirstParam ==
  << Ln("", "MACRO", <<>>),
     Ln("&LBL", "M", <<Tok("param", "&P1"), Tok("param", "&P2")>>),
     Ln("", "GO", <<Tok("param", "&P1")>>),
     Ln("", "MEND", <<>>) >>

\* what a site can hold for M: nothing or one of three definitions
DupDefs == {"none", "callparam", "plain", "first"}

MacroOf(kind) ==
  IF kind = "callparam" THEN MacroCallParam
  ELSE IF kind = "plain" THEN MacroPlain
  ELSE IF kind = "first" THEN MacroFirstParam
  ELSE <<>>

\* the sites of a definition, in search order: twice in the driver, one
\* after the other, then LIB1, then LIB2
DupWorld(main, s1, s2, s3, s4) ==
  << File("DRIVER", <<Ln("PROG", "CSECT", <<>>)>> \o main \o <<Br14>>
                    \o MacroOf(s1) \o MacroOf(s2)),
     File("LIB1", MacroOf(s3)),
     File("LIB2", MacroOf(s4)) >>

DupMains == {<<Ln("", "M", <<Sym("A"), Sym("B")>>)>>, <<GoLine("M"), GoLine("A")>>}

DupInit ==
  /\ \E main \in DupMains, s1 \in DupDefs, s2 \in DupDefs, s3 \in DupDefs, s4 \in DupDefs :
       /\ files = DupWorld(main, s1, s2, s3, s4)
       /\ start_line = 2
       /\ end_line = 1 + Len(main)
  /\ Fresh

\* run over the file sets of DupWorld
DupSpec == DupInit /\ [][Next]_vars

(***************************************************************************)
(* _resolve_equ_alias on its own: the while loop, one iteration per step.  *)
(***************************************************************************)
\* the names an alias table is about
AliasNames == {"A", "B", "C"}

\* what the source says about a label: no EQU line, or label EQU rhs
AliasLine(lab, rhs) == IF rhs = "" THEN <<>> ELSE <<Ln(lab, "EQU", <<Sym(rhs)>>)>>

\* a driver with the alias rows of A, B and C
AliasWorld(ra, rb, rc) ==
  <<File("DRIVER", <<Ln("PROG", "CSECT", <<>>)>> \o AliasLine("A", ra)
                   \o AliasLine("B", rb) \o AliasLine("C", rc))>>

\* variant: the loop does not look at seen
WalkingNoSeen(c, s, aliases) == c \in DOMAIN aliases

\* the condition of the while loop
Walking(c, s, aliases) == c \in DOMAIN aliases /\ c \notin s

\* a call _resolve_equ_alias(name) on a parser whose alias table was built
\* by _discover_equ_aliases: cur = name.upper(), seen = set()
AliasInit ==
  /\ \E ra \in AliasNames \cup {""}, rb \in AliasNames \cup {""}, rc \in AliasNames \cup {""} :
       /\ files = AliasWorld(ra, rb, rc)
       /\ equ_aliases = DiscoverEquAliases(AliasWorld(ra, rb, rc))
  /\ alias_name \in AliasNames \cup {"D"}
  /\ cur = Upper(alias_name)
  /\ seen = {}
  /\ pc = "walk"
  /\ start_line = 1
  /\ end_line = 0
  /\ chunks = Empty
  /\ flow = Empty
  /\ missing = <<>>
  /\ macros = Empty
  /\ macro_nodes = {}
  /\ node_tags = [x \in {"main"} |-> <<"entry">>]
  /\ chunk_kinds = [x \in {"main"} |-> "sub"]
  /\ queue = <<>>
  /\ visited = {}
  /\ parent = NoPair
  /\ calls = <<>>
  /\ save_log = <<>>
  /\ scan_log = <<>>
  /\ resolve_log = <<>>
  /\ catalog_written = FALSE
  /\ nested = NoTree
  /\ emitted = <<>>
  /\ NoOthers

\* one iteration of the while loop
AliasStep ==
  /\ pc = "walk"
  /\ Walking(cur, seen, equ_aliases)
  /\ seen' = seen \cup {cur}
  /\ IF equ_aliases[cur] = ""
     THEN cur' = cur /\ pc' = "returned"
     ELSE cur' = equ_aliases[cur] /\ pc' = "walk"
  /\ UNCHANGED <<files, start_line, end_line, chunks, flow, missing, macros, equ_aliases,
                 macro_nodes, node_tags, chunk_kinds, queue, visited, parent, calls,
                 save_log, scan_log, resolve_log, catalog_written, nested, emitted,
                 alias_name, others>>

\* the loop condition is false: return cur
AliasReturn ==
  /\ pc = "walk"
  /\ ~Walking(cur, seen, equ_aliases)
  /\ pc' = "returned"
  /\ UNCHANGED <<files, start_line, end_line, chunks, flow, missing, macros, equ_aliases,
                 macro_nodes, node_tags, chunk_kinds, queue, visited, parent, calls,
                 save_log, scan_log, resolve_log, catalog_written, nested, emitted,
                 alias_name, cur, seen, others>>

AliasNext == AliasStep \/ AliasReturn

\* the loop is sequential code: whenever an iteration is possible it is taken
AliasSpec == AliasInit /\ [][AliasNext]_vars /\ WF_vars(AliasNext)

(***************************************************************************)
(* Runs over drivers whose IN block of A has a body of any lines and ends  *)
(* with OUT, with the next IN block, or with the file.                     *)
(***************************************************************************)
\* longest body of the IN block of A
MaxBody == 2

\* the lines the body is made of
BodyLineSet ==
  { Mark("X"),
    GoLine("OUT"),
    Ln("", "PUT", <<Sym("OUT"), Sym("REC")>>),
    Ln("OUT", "DS", <<Tok("align", "0H")>>),
    Ln("LBL", "OUT", <<>>) }

Bodies == UNION {[1..k -> BodyLineSet] : k \in 0..MaxBody}

BlockTails == {"out", "in", "eof"}

TailOf(t) ==
  IF t = "out" THEN <<Ln("", "OUT", <<>>), Mark("Y")>>
  ELSE IF t = "in" THEN InOut("B", <<Br14>>)
  ELSE <<>>

\* the driver with the block of A last, and M defined in LIB
BlockWorld(main, body, t) ==
  << File("DRIVER", <<Ln("PROG", "CSECT", <<>>)>> \o main \o <<Br14>>
                    \o <<Ln("A", "IN", <<>>)>> \o body \o TailOf(t)),
     File("LIB", MacroCallParam) >>

BlockInit ==
  /\ \E main \in SearchMains, body \in Bodies, t \in BlockTails :
       /\ files = BlockWorld(main, body, t)
       /\ start_line = 2
       /\ end_line = 1 + Len(main)
  /\ Fresh

\* run over the drivers of BlockWorld
BlockSpec == BlockInit /\ [][Next]_vars

(***************************************************************************)
(* Runs over drivers whose CSECT block of A has a body of any lines and    *)
(* ends with one of the stop lines or with the file.                       *)
(***************************************************************************)
\* longest body of the CSECT block of A
MaxCsBody == 2

DsAlign(label, len) == Ln(label, "DS", <<Tok("align", len)>>)

\* the lines the body is made of
CsBodyLineSet ==
  { Mark("X"),
    DsAlign("LOOP", "0H"),
    Ln("A", "CSECT", <<>>),
    Ln("", "DS", <<Sym("CL10")>>),
    Ln("ENDING", "MVI", <<Sym("FLAG")>>),
    GoLine("EJECT") }

CsBodies == UNION {[1..k -> CsBodyLineSet] : k \in 0..MaxCsBody}

CsTails == {"ds", "other", "end", "eject", "labelled_eject", "eof"}

CsTailOf(t) ==
  (IF t = "ds" THEN <<DsAlign("", "0F")>>
   ELSE IF t = "other" THEN <<Ln("B", "CSECT", <<>>)>>
   ELSE IF t = "end" THEN <<Ln("", "END", <<>>)>>
   ELSE IF t = "eject" THEN <<Ln("", "EJECT", <<>>)>>
   ELSE IF t = "labelled_eject" THEN <<Ln("PAGE", "EJECT", <<>>)>>
   ELSE <<>>)
  \o (IF t = "eof" THEN <<>> ELSE <<Mark("Y"), DsAlign("", "0D")>>)

\* the driver with the section of A last, and M defined in LIB
CsectWorld(main, body, t) ==
  << File("DRIVER", <<Ln("PROG", "CSECT", <<>>)>> \o main \o <<Br14>>
                    \o <<Ln("A", "CSECT", <<>>)>> \o body \o CsTailOf(t)),
     File("LIB", MacroCallParam) >>

CsectInit ==
  /\ \E main \in SearchMains, body \in CsBodies, t \in CsTails :
       /\ files = CsectWorld(main, body, t)
       /\ start_line = 2
       /\ end_line = 1 + Len(main)
  /\ Fresh

\* run over the drivers of CsectWorld
CsectSpec == CsectInit /\ [][Next]_vars

(***************************************************************************)
(* Runs over drivers whose anchor line A EQU has any right-hand side and   *)
(* is followed by a body of any lines and a page break or the end of file. *)
(***************************************************************************)
\* longest body after the anchor line of A
MaxEquBody == 2

\* the right-hand sides of the anchor line: *, a symbol, a number, nothing
EquRhsSet == { <<Tok("star", "*")>>, <<Sym("B")>>, <<Num("5")>>, <<>> }

\* the lines the body is made of
EquBodyLineSet ==
  { Mark("X"),
    DsAlign("INRTBL", "0H"),
    Br14,
    GoLine("EJECT") }

EquBodies == UNION {[1..k -> EquBodyLineSet] : k \in 0..MaxEquBody}

EquTails == {"eject", "labelled_eject", "eof"}

EquTailOf(t) ==
  IF t = "eject" THEN <<Ln("", "EJECT", <<>>), DsAlign("AFTEREJ", "0H")>>
  ELSE IF t = "labelled_eject" THEN <<Ln("PAGE", "EJECT", <<>>), DsAlign("AFTEREJ", "0H")>>
  ELSE <<>>

\* the driver with the anchor line of A and what follows it last
EquWorld(main, rhs, body, t) ==
  << File("DRIVER", <<Ln("PROG", "CSECT", <<>>)>> \o main \o <<Br14>>
                    \o <<Ln("A", "EQU", rhs)>> \o body \o EquTailOf(t)),
     File("LIB", MacroCallParam) >>

EquInit ==
  /\ \E main \in SearchMains, rhs \in EquRhsSet, body \in EquBodies, t \in EquTails :
       /\ files = EquWorld(main, rhs, body, t)
       /\ start_line = 2
       /\ end_line = 1 + Len(main)
  /\ Fresh

\* run over the drivers of EquWorld
EquSpec == EquInit /\ [][Next]_vars

(***************************************************************************)
(* The two operand splitters, applied to operand texts.  A text is the     *)
(* sequence of its characters.                                             *)
(***************************************************************************)
\* longest operand text
MaxText == 5

\* the characters a text is made of: a letter, the comma, the two quote
\* characters, the parentheses and the blank
Chars == {"A", ",", "'", "\"", "(", ")", " "}

Texts == UNION {[1..k -> Chars] : k \in 0..MaxText}

IsSpace(ch) == ch \in {" ", "\t"}

\* str.strip()
RECURSIVE Strip(_)
Strip(t) ==
  IF t = <<>> THEN <<>>
  ELSE IF IsSpace(Head(t)) THEN Strip(Tail(t))
  ELSE IF IsSpace(t[Len(t)]) THEN Strip(SubSeq(t, 1, Len(t) - 1))
  ELSE t

\* depth - 1 without the floor at 0
Max0Signed(n) == n

\* max(0, n)
Max0(n) == IF n > 0 THEN n ELSE 0

\* the for loop of _split_operands from character i on
RECURSIVE SplitLoop(_, _, _, _, _, _)
SplitLoop(text, i, out, curr, depth, quote) ==
  IF i > Len(text) THEN [out |-> out, curr |-> curr]
  ELSE IF quote # ""
    THEN SplitLoop(text, i + 1, out, Append(curr, text[i]), depth,
                   IF text[i] = quote THEN "" ELSE quote)
  ELSE IF text[i] \in {"'", "\""}
    THEN SplitLoop(text, i + 1, out, Append(curr, text[i]), depth, text[i])
  ELSE IF text[i] = "("
    THEN SplitLoop(text, i + 1, out, Append(curr, text[i]), depth + 1, quote)
  ELSE IF text[i] = ")"
    THEN SplitLoop(text, i + 1, out, Append(curr, text[i]), Max0(depth - 1), quote)
  ELSE IF text[i] = "," /\ depth = 0
    THEN SplitLoop(text, i + 1, Append(out, Strip(curr)), <<>>, depth, quote)
  ELSE IF IsSpace(text[i]) /\ depth = 0
    THEN [out |-> out, curr |-> curr]
  ELSE SplitLoop(text, i + 1, out, Append(curr, text[i]), depth, quote)

\* [o for o in out if o]
NonEmpty(out) == SelectSeq(out, LAMBDA o : o # <<>>)

\* LightParser._split_operands
SplitOperands(operand_text) ==
  LET End(r) == NonEmpty(IF r.curr # <<>> THEN Append(r.out, Strip(r.curr)) ELSE r.out)
  IN IF operand_text = <<>> THEN <<>>
     ELSE With(SplitLoop(operand_text, 1, <<>>, <<>>, 0, ""), End)

\* the for loop of _parse_operands from character i on
RECURSIVE ParseLoop(_, _, _, _, _, _, _)
ParseLoop(operands_str, i, operands, token, in_quote, quote_char, depth) ==
  IF i > Len(operands_str) THEN [operands |-> operands, token |-> token]
  ELSE IF in_quote
    THEN ParseLoop(operands_str, i + 1, operands, Append(token, operands_str[i]),
                   operands_str[i] # quote_char, quote_char, depth)
  ELSE IF operands_str[i] \in {"'", "\""}
    THEN ParseLoop(operands_str, i + 1, operands, Append(token, operands_str[i]),
                   TRUE, operands_str[i], depth)
  ELSE IF operands_str[i] = "("
    THEN ParseLoop(operands_str, i + 1, operands, Append(token, operands_str[i]),
                   in_quote, quote_char, depth + 1)
  ELSE IF operands_str[i] = ")"
    THEN ParseLoop(operands_str, i + 1, operands, Append(token, operands_str[i]),
                   in_quote, quote_char, Max0(depth - 1))
  ELSE IF operands_str[i] = "," /\ depth = 0
    THEN ParseLoop(operands_str, i + 1,
                   IF Strip(token) # <<>> THEN Append(operands, Strip(token))
                   ELSE operands,
                   <<>>, in_quote, quote_char, depth)
  ELSE ParseLoop(operands_str, i + 1, operands, Append(token, operands_str[i]),
                 in_quote, quote_char, depth)

\* InstructionParser._parse_operands
ParseOperands(operands_str) ==
  LET End(r) == IF Strip(r.token) # <<>> THEN Append(r.operands, Strip(r.token))
                ELSE r.operands
  IN With(ParseLoop(operands_str, 1, <<>>, <<>>, FALSE, "", 0), End)

\* the value a call returned
Returned(v) == [run |-> TRUE, val |-> v]

\* no LightParser is involved
NoParser ==
  /\ FreshParser
  /\ files = <<>>
  /\ start_line = 1
  /\ end_line = 0

parser_vars == <<files, start_line, end_line, pc, chunks, flow, missing, macros,
                 equ_aliases, macro_nodes, node_tags, chunk_kinds, queue, visited,
                 parent, calls, save_log, scan_log, resolve_log, catalog_written,
                 nested, cur, seen, emitted, alias_name>>

OperandInit ==
  /\ NoParser
  /\ op_text \in Texts
  /\ split_out = NotRun
  /\ parse_out = NotRun
  /\ NoLabelPass
  /\ NoDepMap
  /\ NoAnalysis

\* a call LightParser._split_operands(op_text)
SplitOperandsCall ==
  /\ ~split_out.run
  /\ split_out' = Returned(SplitOperands(op_text))
  /\ UNCHANGED <<parser_vars, op_text, parse_out, label_vars, depmap_vars, analysis_vars>>

\* a call InstructionParser._parse_operands(op_text)
ParseOperandsCall ==
  /\ ~parse_out.run
  /\ parse_out' = Returned(ParseOperands(op_text))
  /\ UNCHANGED <<parser_vars, op_text, split_out, label_vars, depmap_vars, analysis_vars>>

OperandNext == SplitOperandsCall \/ ParseOperandsCall

OperandSpec == OperandInit /\ [][OperandNext]_vars

(***************************************************************************)
(* LabelBlockPass.run.  A source line is the record of its label zone (the *)
(* first 8 columns, trailing blanks dropped) and of the words of the rest. *)
(***************************************************************************)
\* longest input of the pass
MaxLabelLines == 3

SrcLine(zone, rest) == [zone |-> zone, rest |-> rest]

\* the lines an input is made of
LabelLineSet ==
  { SrcLine("", <<>>),
    SrcLine("", <<"NOP">>),
    SrcLine("A", <<"NOP">>),
    SrcLine("B", <<"NOP">>),
    SrcLine("B", <<>>),
    SrcLine("PROG", <<"CSECT">>),
    SrcLine("WORK", <<"DSECT">>),
    SrcLine("C", <<"LA", "1,MYDSECT">>),
    SrcLine("SORTED", <<"NOP">>),
    SrcLine("*", <<"NOTE">>),
    SrcLine("&P", <<"SETC">>),
    SrcLine(" LBL", <<"NOP">>),
    SrcLine(".LOC", <<"NOP">>),
    SrcLine("EXEC SQL", <<"SELECT">>) }

LabelInputs == UNION {[1..k -> LabelLineSet] : k \in 0..MaxLabelLines}

\* str.startswith, on the words of the model
StartsWith(w, prefix) ==
  \/ w = prefix
  \/ prefix = "&" /\ w = "&P"
  \/ prefix = " " /\ w = " LBL"
  \/ prefix = "." /\ w = ".LOC"

\* the substring test, on the words of the model
Contains(w, part) == w = part \/ (part = "DSECT" /\ w = "1,MYDSECT")

\* _is_csect
IsCsect(line) == line.rest # <<>> /\ StartsWith(line.rest[1], "CSECT")

\* _is_dsect
IsDsect(line) == \E i \in 1..Len(line.rest) : Contains(line.rest[i], "DSECT")

\* _EXEC_SQL_RE
ExecSqlRe(line) == StartsWith(line.zone, "EXEC SQL")

\* label_zone.strip()
ZoneStrip(zone) == IF zone = " LBL" THEN "LBL" ELSE zone

\* CodeElement(id, text, element_type)
CodeElement(id, text, element_type) ==
  [id |-> id, text |-> text, element_type |-> element_type, children |-> <<>>]

\* LabelledBlock(id, label); a local label carries the id of its suffix
LabelledBlock(id, label, suffix) ==
  [id |-> id, text |-> label, element_type |-> "LABELLED_BLOCK", children |-> <<>>,
   label |-> label, suffix |-> suffix]

\* current.add(e): root.children after the call
AddToCurrent(children, at, e) ==
  IF at = 0 THEN Append(children, e)
  ELSE [children EXCEPT ![at].children = Append(@, e)]

\* LabelBlockPass.run up to the for loop: root takes the next id
LabelInit ==
  /\ NoParser
  /\ NoOperands
  /\ NoDepMap
  /\ NoAnalysis
  /\ lines_in \in LabelInputs
  /\ line_no = 0
  /\ root = <<>>
  /\ current = 0
  /\ id_gen \in {2, 3}

\* one iteration of the for loop of LabelBlockPass.run
LabelLine ==
  /\ line_no < Len(lines_in)
  /\ line_no' = line_no + 1
  /\ LET line == lines_in[line_no + 1]
         Raw == CodeElement(id_gen, line.rest, "RAW")
         Comment == CodeElement(id_gen, line, "COMMENT")
         RawLine == CodeElement(id_gen, line, "RAW")
         Add(e) == /\ root' = AddToCurrent(root, current, e)
                   /\ current' = current
                   /\ id_gen' = id_gen + 1
     IN IF line.zone = "" /\ line.rest = <<>> THEN UNCHANGED <<root, current, id_gen>>
        ELSE IF IsCsect(line) \/ IsDsect(line) THEN Add(Raw)
        ELSE IF ZoneStrip(line.zone) \in {"", "SORTED"} THEN Add(Raw)
        ELSE IF StartsWith(line.zone, "*") THEN Add(Comment)
        ELSE IF StartsWith(ZoneStrip(line.zone), "&") THEN Add(Comment)
        ELSE IF ExecSqlRe(line) THEN Add(RawLine)
        ELSE IF StartsWith(line.zone, " ") THEN Add(Raw)
        ELSE LET local == StartsWith(ZoneStrip(line.zone), ".")
                 n == IF local THEN id_gen + 1 ELSE id_gen
                 block == LabelledBlock(n, ZoneStrip(line.zone), IF local THEN id_gen ELSE 0)
                 with == Append(root, block)
             IN /\ current' = Len(with)
                /\ IF line.rest # <<>>
                   THEN /\ root' = AddToCurrent(with, Len(with),
                                                CodeElement(n + 1, line.rest, "RAW"))
                        /\ id_gen' = n + 2
                   ELSE /\ root' = with
                        /\ id_gen' = n + 1
  /\ UNCHANGED <<parser_vars, operand_vars, depmap_vars, analysis_vars, lines_in>>

LabelNext == LabelLine

LabelSpec == LabelInit /\ [][LabelNext]_vars

(***************************************************************************)
(* HLASMDependencyMap: the dependency graph and its transitive closure.    *)
(***************************************************************************)
\* most edges a graph is given
MaxEdges == 3

\* the program names
Programs == {"A", "B", "C"}

\* self._edges.get(node, set())
EdgesGet(e, node) == IF node \in DOMAIN e THEN e[node] ELSE {}

\* add_call_dependency: the edges after the call
AddEdge(e, src, dest) ==
  LET e1 == Put(e, src, EdgesGet(e, src) \cup {dest})
  IN IF dest \in DOMAIN e1 THEN e1 ELSE Put(e1, dest, {})

\* list(s): the elements of a set in some order
RECURSIVE ListOf(_)
ListOf(S) ==
  IF S = {} THEN <<>>
  ELSE LET x == CHOOSE y \in S : TRUE IN <<x>> \o ListOf(S \ {x})

\* the while loop of the BFS fallback of get_all_dependencies
RECURSIVE BfsLoop(_, _, _)
BfsLoop(e, work, done) ==
  IF work = <<>> THEN done
  ELSE LET node == work[Len(work)]
           rest == SubSeq(work, 1, Len(work) - 1)
       IN IF node \notin done
          THEN BfsLoop(e, rest \o ListOf(EdgesGet(e, node)), done \cup {node})
          ELSE BfsLoop(e, rest, done)

\* get_all_dependencies without NetworkX
BfsFallback(e, program) == BfsLoop(e, ListOf(EdgesGet(e, program)), {})

\* _to_nx: the nodes and the edges of the DiGraph
ToNx(e) ==
  [nodes |-> (DOMAIN e) \cup UNION {e[x] : x \in DOMAIN e},
   edges |-> {<<x, y>> \in (DOMAIN e) \X Programs : y \in e[x]}]

\* the nodes of g reached from the set S of nodes
RECURSIVE ReachedFrom(_, _)
ReachedFrom(g, S) ==
  LET more == S \cup {y \in g.nodes : \E x \in S : <<x, y>> \in g.edges}
  IN IF more = S THEN S ELSE ReachedFrom(g, more)

\* nx.descendants(g, source): every node reachable from source, source
\* itself left out
NxDescendants(g, source) == ReachedFrom(g, {source}) \ {source}

\* get_all_dependencies with NetworkX
NxPath(e, program) ==
  IF program \notin ToNx(e).nodes THEN {} ELSE NxDescendants(ToNx(e), program)

\* get_all_dependencies
GetAllDependencies(e, program, nx) ==
  IF nx THEN NxPath(e, program) ELSE BfsFallback(e, program)

\* the number of edges of the graph
EdgeCount(e) == Cardinality(ToNx(e).edges)

\* HLASMDependencyMap.__init__, with or without NetworkX installed
DepMapInit ==
  /\ NoParser
  /\ NoOperands
  /\ NoLabelPass
  /\ NoAnalysis
  /\ edges = [x \in {} |-> {}]
  /\ has_nx \in BOOLEAN
  /\ all_deps = NotRun

\* a call add_call_dependency(src, dest)
AddCallDependency ==
  /\ \E src \in Programs, dest \in Programs :
       /\ EdgeCount(AddEdge(edges, src, dest)) <= MaxEdges
       /\ edges' = AddEdge(edges, src, dest)
  /\ UNCHANGED <<parser_vars, operand_vars, label_vars, analysis_vars, has_nx, all_deps>>

\* a call get_all_dependencies(program)
GetAllDependenciesCall ==
  /\ \E program \in Programs :
       all_deps' = [run |-> TRUE, graph |-> edges, program |-> program,
                    val |-> GetAllDependencies(edges, program, has_nx)]
  /\ UNCHANGED <<parser_vars, operand_vars, label_vars, analysis_vars, edges, has_nx>>

DepMapNext == AddCallDependency \/ GetAllDependenciesCall

DepMapSpec == DepMapInit /\ [][DepMapNext]_vars

(***************************************************************************)
(* HlasmAnalysis.analyze_with_dependencies.  A path is the record of a     *)
(* stem and an extension under external_path; what analyze_file returns    *)
(* for a file is given with the file: its chunks, each a label and a list  *)
(* of dependencies.                                                        *)
(***************************************************************************)
\* _MAX_DEPTH
MAX_DEPTH == 20

\* longest chain of files, the root apart
MaxChain == 22

Path(stem, ext) == [stem |-> stem, ext |-> ext]

Chunk(label, dependencies) == [label |-> label, dependencies |-> dependencies]

\* the extensions _resolve_dependency tries, in its order
Exts == <<".asm", ".hlasm", ".s", ".ASM", ".HLASM", "">>

\* _resolve_dependency: the first candidate that exists (NoPath for None)
NoPath == Path("", "none")

ResolveDependency(fs, dep_name) ==
  LET Hit == {i \in 1..Len(Exts) : Path(dep_name, Exts[i]) \in DOMAIN fs}
  IN IF Hit = {} THEN NoPath ELSE Path(dep_name, Exts[SetMin(Hit)])

\* variant: only the first dependency of each chunk is followed
RECURSIVE PendingFirstDep(_)
PendingFirstDep(chunks_) ==
  IF chunks_ = <<>> THEN <<>>
  ELSE (IF Head(chunks_).dependencies = <<>> THEN <<>>
        ELSE <<[chunk |-> Head(chunks_).label, dep |-> Head(chunks_).dependencies[1]]>>)
       \o PendingFirstDep(Tail(chunks_))

\* the (chunk, dep) pairs of the two nested for loops, in their order
RECURSIVE Pending(_)
Pending(chunks_) ==
  IF chunks_ = <<>> THEN <<>>
  ELSE [i \in 1..Len(Head(chunks_).dependencies) |->
          [chunk |-> Head(chunks_).label, dep |-> Head(chunks_).dependencies[i]]]
       \o Pending(Tail(chunks_))

\* the labels of all chunks of all analysed files, in upper case
KnownLabels(res) ==
  UNION {{Upper(res[f][i].label) : i \in 1..Len(res[f])} : f \in DOMAIN res}

\* depth > _MAX_DEPTH
TooDeepNever(depth) == FALSE

TooDeep(depth) == depth > MAX_DEPTH

\* a dependency name as a vertex of the dependency map: a string that is no
\* path
Symbol(dep) == [stem |-> dep, ext |-> "symbol"]

\* _record_dependencies: the edges after add_call_dependency(source, dep) for
\* every pair of the list
RECURSIVE RecordDependencies(_, _, _)
RecordDependencies(e, source, pairs) ==
  IF pairs = <<>> THEN e
  ELSE RecordDependencies(AddEdge(e, source, Symbol(Head(pairs).dep)), source,
                          Tail(pairs))

\* a call _analyze_recursive(file_path, results, depth) that has just been made
Frame(file_path, depth) ==
  [file_path |-> file_path, depth |-> depth, entered |-> FALSE,
   pending |-> <<>>, seen_deps |-> {}, known_labels |-> {}]

\* the stack after its innermost call has returned
Pop(st) == SubSeq(st, 1, Len(st) - 1)

\* the names of the files of a chain
ChainNames ==
  << "F1", "F2", "F3", "F4", "F5", "F6", "F7", "F8", "F9", "F10", "F11", "F12",
     "F13", "F14", "F15", "F16", "F17", "F18", "F19", "F20", "F21", "F22", "F23",
     "F24", "F25" >>

\* the dependency lists of the files of a small file set
DepLists ==
  { <<>>, <<"B">>, <<"C">>, <<"B", "C">>, <<"C", "B">>, <<"A">>, <<"SUB">>,
    <<"SUB", "B">>, <<"main">>, <<"GHOST">>, <<"B", "B">> }

\* three files at most: A with a chunk MAIN, B with a chunk SUB, C with a
\* chunk CL, each with any of the dependency lists
SmallDisk(da, db, dc, b_ext, has_c) ==
  LET a == Path("A", ".asm")
      b == Path("B", b_ext)
      c == Path("C", ".asm")
  IN [p \in {a, b} \cup (IF has_c THEN {c} ELSE {}) |->
        IF p = a THEN <<Chunk("MAIN", da)>>
        ELSE IF p = b THEN <<Chunk("INIT", <<>>), Chunk("SUB", db)>>
        ELSE <<Chunk("CL", dc)>>]

\* the root A and a chain F1 .. Fn, each file depending on the next; the
\* root may also depend on the last file, and the last file on the root
ChainDisk(n, shortcut, back) ==
  LET a == Path("A", ".asm")
      F(i) == Path(ChainNames[i], ".asm")
      RootDeps == (IF n >= 1 THEN <<ChainNames[1]>> ELSE <<>>)
                  \o (IF shortcut /\ n >= 1 THEN <<ChainNames[n]>> ELSE <<>>)
      DepsOf(i) == IF i < n THEN <<ChainNames[i + 1]>>
                   ELSE IF back THEN <<"A">> ELSE <<>>
  IN [p \in {a} \cup {F(i) : i \in 1..n} |->
        IF p = a THEN <<Chunk("MAIN", RootDeps)>>
        ELSE <<Chunk(p.stem, DepsOf(CHOOSE i \in 1..n : ChainNames[i] = p.stem))>>]

\* analyze_with_dependencies up to the first call of _analyze_recursive, on
\* a new HlasmAnalysis
AnalysisInit ==
  /\ NoParser
  /\ NoOperands
  /\ NoLabelPass
  /\ edges = [x \in {} |-> {}]
  /\ has_nx = FALSE
  /\ all_deps = NotRun
  /\ \/ \E da \in DepLists, db \in DepLists, dc \in DepLists,
          b_ext \in {".asm", ".hlasm"}, has_c \in BOOLEAN :
            disk = SmallDisk(da, db, dc, b_ext, has_c)
     \/ \E n \in 0..MaxChain, shortcut \in BOOLEAN, back \in BOOLEAN :
            disk = ChainDisk(n, shortcut, back)
  /\ results = [x \in {} |-> <<>>]
  /\ missing_deps = <<>>
  /\ \E file_path \in {Path("A", ".asm"), Path("NOFILE", ".asm")} :
       stack = <<Frame(file_path, 0)>>
  /\ depth_log = <<>>
  /\ an_pc = "running"

\* the innermost call returns; the outermost one returns to
\* analyze_with_dependencies, which returns results
ReturnFrom(st) ==
  /\ stack' = Pop(st)
  /\ an_pc' = IF Len(st) = 1 THEN "returned" ELSE "running"

\* _analyze_recursive from its entry to the dependency loop
Enter ==
  /\ an_pc = "running"
  /\ ~stack[Len(stack)].entered
  /\ LET fr == stack[Len(stack)]
         file_path == fr.file_path
     IN IF TooDeep(fr.depth)
        THEN /\ depth_log' = Append(depth_log, file_path)
             /\ ReturnFrom(stack)
             /\ UNCHANGED <<results, edges>>
        ELSE IF file_path \in DOMAIN results \/ file_path \notin DOMAIN disk
        THEN /\ ReturnFrom(stack)
             /\ UNCHANGED <<results, edges, depth_log>>
        ELSE /\ results' = Put(results, file_path, disk[file_path])
             /\ edges' = RecordDependencies(edges, file_path, Pending(disk[file_path]))
             /\ stack' = [stack EXCEPT ![Len(stack)] =
                            [fr EXCEPT !.entered = TRUE,
                                       !.pending = Pending(disk[file_path]),
                                       !.known_labels = KnownLabels(results')]]
             /\ an_pc' = "running"
             /\ UNCHANGED depth_log
  /\ UNCHANGED <<parser_vars, operand_vars, label_vars, has_nx, all_deps, disk,
                 missing_deps>>

\* one iteration of the dependency loop of _analyze_recursive
FollowDep ==
  /\ an_pc = "running"
  /\ stack[Len(stack)].entered
  /\ stack[Len(stack)].pending # <<>>
  /\ LET fr == stack[Len(stack)]
         chunk == Head(fr.pending).chunk
         dep == Head(fr.pending).dep
         dep_path == ResolveDependency(disk, dep)
         next == [fr EXCEPT !.pending = Tail(@), !.seen_deps = @ \cup {dep}]
         here == [stack EXCEPT ![Len(stack)] = next]
     IN IF dep \in fr.seen_deps
        THEN stack' = here /\ UNCHANGED missing_deps
        ELSE IF dep_path # NoPath
        THEN /\ stack' = IF dep_path \notin DOMAIN results
                         THEN Append(here, Frame(dep_path, fr.depth + 1))
                         ELSE here
             /\ UNCHANGED missing_deps
        ELSE /\ stack' = here
             /\ missing_deps' =
                  IF Upper(dep) \notin fr.known_labels
                  THEN Append(missing_deps,
                              [dep_name |-> dep, referenced_from_file |-> fr.file_path,
                               referenced_in_chunk |-> chunk])
                  ELSE missing_deps
  /\ UNCHANGED <<parser_vars, operand_vars, label_vars, depmap_vars, disk, results,
                 depth_log, an_pc>>

\* the dependency loop is over: _analyze_recursive returns
Leave ==
  /\ an_pc = "running"
  /\ stack[Len(stack)].entered
  /\ stack[Len(stack)].pending = <<>>
  /\ ReturnFrom(stack)
  /\ UNCHANGED <<parser_vars, operand_vars, label_vars, depmap_vars, disk, results,
                 missing_deps, depth_log>>

AnalysisNext == Enter \/ FollowDep \/ Leave

AnalysisSpec == AnalysisInit /\ [][AnalysisNext]_vars

(***************************************************************************)
(* Properties.                                                             *)
(***************************************************************************)
\* every name that occurs in flow, as a key or inside a child list
FlowNames == (DOMAIN flow) \cup UNION {Range(flow[p]) : p \in DOMAIN flow}

MissingSet == Range(missing)

\* number of times a name has been put on the queue of run
EnqCount(q, log, n) == Count(log, n) + Cardinality({i \in 1..Len(q) : q[i].name = n})

NoDup(s) == \A i, j \in 1..Len(s) : s[i] = s[j] => i = j

\* C1: when run has returned, every name that occurs in flow (as a key or in
\* a child list) is in exactly one of the chunk store and the missing list:
\* never in both, never in neither.  The code stores every cataloged macro
\* as a chunk, so the statement is checked without the claim's exception
\* for catalog-only names.
C1_PartitionAtReturn ==
  pc = "done" => \A n \in FlowNames : (n \in DOMAIN chunks) # (n \in MissingSet)

\* a finished run whose flow holds a missing name, a cataloged macro and a
\* resolved block other than the entry block
C1_Witness ==
  /\ pc = "done"
  /\ \E n \in FlowNames : n \in MissingSet
  /\ \E n \in FlowNames : n \in DOMAIN macros
  /\ \E n \in FlowNames : n \in DOMAIN chunks /\ n \notin DOMAIN macros /\ n # "main"

\* the entry block calls a, a calls b and b calls a again
InCycle(a, b) ==
  /\ a # b
  /\ "main" \in DOMAIN flow /\ a \in DOMAIN flow /\ b \in DOMAIN flow
  /\ a \in Range(flow["main"])
  /\ b \in Range(flow[a])
  /\ a \in Range(flow[b])

\* no block is saved by the resolver or scanned more than once, and after the
\* return the two blocks of a call cycle are chunks saved and scanned once
CycleOnce ==
  /\ \A n \in visited : Count(scan_log, n) <= 1 /\ Count(resolve_log, n) <= 1
  /\ pc = "done" =>
       \A a, b \in visited :
         InCycle(a, b) =>
           /\ a \in DOMAIN chunks /\ b \in DOMAIN chunks
           /\ Count(scan_log, a) = 1 /\ Count(scan_log, b) = 1
           /\ a \notin DOMAIN macros => Count(save_log, a) = 1
           /\ b \notin DOMAIN macros => Count(save_log, b) = 1

\* C2: run terminates for every file set (the queue becomes empty and run
\* returns), also when the entry block calls A, A calls B and B calls A;
\* A and B are then each stored and scanned exactly once.
C2_CycleTerminates == <>(pc = "done" /\ queue = <<>>) /\ []CycleOnce

\* a finished run over a call cycle
C2_Witness == pc = "done" /\ \E a, b \in visited : InCycle(a, b)

\* C3: once a name has been visited, a later resolution of it (from the same
\* parent or another one) changes nothing: the cascade is not run again, its
\* chunk is not written again, it is not put on the queue again, and no flow
\* child list ever holds a name twice.
C3_RevisitIsNoOp ==
  [][ /\ \A n \in visited :
           /\ Count(resolve_log', n) = Count(resolve_log, n)
           /\ Count(save_log', n) = Count(save_log, n)
           /\ EnqCount(queue', scan_log', n) = EnqCount(queue, scan_log, n)
           /\ n \in DOMAIN chunks => chunks'[n] = chunks[n]
      /\ \A p \in DOMAIN flow' : NoDup(flow'[p]) ]_vars

\* a finished run in which a resolved block is a child of two parents, so it
\* was submitted for resolution at least twice
C3_Witness ==
  /\ pc = "done"
  /\ \E n \in DOMAIN chunks \cap visited : \E p, q \in DOMAIN flow :
        p # q /\ n \in Range(flow[p]) /\ n \in Range(flow[q])

\* the child a call event adds to the flow of the block that holds the line
ChildOf(ev) == ev.name

\* the children the own lines of block p call, in the order of the lines
OwnLineOrder(p) == Dedup(Map(AllLineCalls(chunks[p], macros, p), ChildOf))

\* x stands before y in s
Before(s, x, y) == IndexOf(s, x) < IndexOf(s, y)

Outcome(vis, ch, miss, n) ==
  IF n \in Range(miss) THEN "missing"
  ELSE IF n \in vis /\ n \in DOMAIN ch THEN "resolved"
  ELSE ""

\* C5: a name only moves forward: once it is stored as a resolved chunk or
\* recorded in missing, that outcome is final and never becomes the other.
C5_OutcomeIsFinal ==
  [][ \A n \in visited \cup MissingSet :
        Outcome(visited, chunks, missing, n) # "" =>
          /\ Outcome(visited', chunks', missing', n) = Outcome(visited, chunks, missing, n)
          /\ (n \in MissingSet => n \notin DOMAIN chunks') ]_vars

\* a finished run with two missing names and a resolved one
C5_Witness ==
  /\ pc = "done"
  /\ Cardinality(MissingSet) >= 2
  /\ \E n \in visited : Outcome(visited, chunks, missing, n) = "resolved" /\ n # "main"

\* some resolution strategy locates n in the searchable files
Resolvable(n) == Cascade(files, macros, n).found

\* the names the lines of block p submit: the macros invoked, their
\* call-site targets and the direct targets
Submitted(p) ==
  UNION {{ev.name} \cup Range(ev.targets) :
           ev \in Range(AllLineCalls(chunks[p], macros, p))}

\* C6: a target that no strategy locates is recorded in missing and does not
\* stop the traversal: when run has returned, every target of every scanned
\* block (the siblings before and after a missing one included) is visited,
\* is in missing if nothing locates it, and is otherwise a chunk that was
\* scanned; and every block that was put on the queue was scanned.
C6_MissingIsNotFatal ==
  pc = "done" =>
    /\ \A p \in Range(scan_log) :
         \A t \in Submitted(p) :
           /\ t \in visited
           /\ IF Resolvable(t)
              THEN t \in DOMAIN chunks /\ t \in Range(scan_log) /\ t \notin MissingSet
              ELSE t \in MissingSet
    /\ \A n \in visited : n \in MissingSet \/ n \in Range(scan_log)

\* a finished run in which a missing target stands in a child list between
\* two siblings that were resolved and scanned
C6_Witness ==
  /\ pc = "done"
  /\ \E p \in DOMAIN flow : \E i, j, k \in 1..Len(flow[p]) :
        /\ i < j /\ j < k
        /\ flow[p][j] \in MissingSet
        /\ flow[p][i] \in Range(scan_log) /\ flow[p][i] \in DOMAIN chunks
        /\ flow[p][k] \in Range(scan_log) /\ flow[p][k] \in DOMAIN chunks

\* file (in search order) of the first line "n IN", 0 if none
InFileOf(n) ==
  LET S == {f \in 1..Len(files) : \E i \in 1..Len(files[f].lines) : InRe(n, files[f].lines[i])}
  IN IF S = {} THEN 0 ELSE SetMin(S)

\* file (in search order) of the first line "n CSECT", 0 if none
CsectFileOf(n) ==
  LET S == {f \in 1..Len(files) :
              \E i \in 1..Len(files[f].lines) :
                files[f].lines[i].label = n /\ files[f].lines[i].op = "CSECT"}
  IN IF S = {} THEN 0 ELSE SetMin(S)

\* the chunk of n is its IN block
HoldsInBlock(n) == n \in DOMAIN chunks /\ chunks[n] = FindSubroutine(files, n).lines

\* C7 as stated: whenever a resolved name has an IN block and a CSECT block
\* in the searchable files, in whichever files, its chunk is the IN block.
C7_MarkerBlockWins ==
  pc = "done" =>
    \A n \in visited : InFileOf(n) # 0 /\ CsectFileOf(n) # 0 => HoldsInBlock(n)

\* C7, amended: whenever a resolved name that is not a cataloged macro has an
\* IN block and a CSECT block in the searchable files, in whichever files,
\* its chunk is the IN block (the chunk of a cataloged macro is its macro
\* definition).
C7_MarkerBlockWinsUnlessMacro ==
  pc = "done" =>
    \A n \in visited \ DOMAIN macros :
      InFileOf(n) # 0 /\ CsectFileOf(n) # 0 => HoldsInBlock(n)

\* a finished run that resolved a name whose CSECT block is in the driver
\* and whose IN block is in a later file of the search order
C7_Witness ==
  /\ pc = "done"
  /\ \E n \in visited \ DOMAIN macros :
        /\ CsectFileOf(n) # 0 /\ InFileOf(n) > CsectFileOf(n)
        /\ HoldsInBlock(n)
        /\ Head(chunks[n]).op = "IN"

\* positions of the operands of call line l that macro binds to one of its
\* call parameters (a formal named twice keeps its last operand)
BoundAt(macro, l) ==
  {i \in 1..Len(SplitStatement(l).operands) :
     /\ i <= Len(macro.parameters)
     /\ macro.parameters[i] \in Range(macro.call_params)
     /\ \A j \in (i + 1)..Len(macro.parameters) :
          j <= Len(SplitStatement(l).operands) => macro.parameters[j] # macro.parameters[i]}

\* the symbolic operands of call line l at the positions of P
SymbolsAt(l, P) ==
  {Upper(SplitStatement(l).operands[i].v) :
     i \in {k \in P : LooksSymbolic(SplitStatement(l).operands[k])}}

AllPositions(l) == 1..Len(SplitStatement(l).operands)

\* the macro event at the head of the events of the block being scanned
AtMacroEvent == pc = "calls" /\ Head(calls).kind = "macro"

\* a call line of the block being scanned that invokes the macro of event ev
CallLinesOf(ev) ==
  {i \in 1..Len(parent.lines) : parent.lines[i].label = "" /\ parent.lines[i].op = ev.name}

TargetsOfLine(macro, l) ==
  IF SymbolsAt(l, BoundAt(macro, l)) # {} THEN SymbolsAt(l, BoundAt(macro, l))
  ELSE SymbolsAt(l, AllPositions(l))

\* the lines of block b, with a blank label, that invoke a cataloged macro
\* other than b itself
MacroCallLines(b) ==
  {i \in 1..Len(b.lines) :
     /\ b.lines[i].label = ""
     /\ b.lines[i].op \in DOMAIN macros
     /\ b.lines[i].op # Upper(b.name)}

C9_EntryChunkExists ==
  pc = "done" =>
    /\ "main" \in DOMAIN chunks
    /\ chunks["main"] = ExtractRange(files[1].lines, start_line, end_line)

\* a finished run whose entry block has a line and no outgoing call
C9_Witness ==
  /\ pc = "done"
  /\ "main" \in DOMAIN flow /\ flow["main"] = <<>>
  /\ "main" \in DOMAIN chunks /\ chunks["main"] # <<>>

\* C10: once a name has a kind, and once it has tags, no later step (macro
\* event, direct reference, catalog writing) changes them.
C10_KindAndTagsFixed ==
  [][ /\ \A n \in DOMAIN chunk_kinds :
           n \in DOMAIN chunk_kinds' /\ chunk_kinds'[n] = chunk_kinds[n]
      /\ \A n \in DOMAIN node_tags :
           n \in DOMAIN node_tags' /\ node_tags'[n] = node_tags[n] ]_vars

\* a finished run in which macro M was resolved by a direct reference and
\* also invoked, next to a control section and a copybook
C10_Witness ==
  /\ pc = "done"
  /\ "M" \in DOMAIN macros /\ "M" \in Range(resolve_log)
  /\ "M" \in DOMAIN flow /\ flow["M"] # <<>>
  /\ \E n \in DOMAIN chunk_kinds : chunk_kinds[n] = "csect"
  /\ \E n \in DOMAIN chunk_kinds : chunk_kinds[n] = "copybook"

\* the nodes of a tree in depth-first order, parents before children
RECURSIVE Preorder(_)
RECURSIVE PreorderAll(_, _)
Preorder(node) ==
  <<node>> \o (IF "calls" \in DOMAIN node THEN PreorderAll(node.calls, 1) ELSE <<>>)

PreorderAll(nodes, k) ==
  IF k > Len(nodes) THEN <<>> ELSE Preorder(nodes[k]) \o PreorderAll(nodes, k + 1)

IsStub(node) == "ref" \in DOMAIN node

IsExpanded(node) == "source_lines" \in DOMAIN node

\* C11: in the nested tree every name is a fully expanded node (with source
\* lines) exactly at its first depth-first occurrence, and every later
\* occurrence of the name is a reference stub without source lines; this
\* holds for cyclic flows and for callees shared by several parents.
C11_ExpandedOnce ==
  nested # NoTree =>
    LET nodes == Preorder(nested)
    IN \A i \in 1..Len(nodes) :
         IF \A j \in 1..(i - 1) : nodes[j].name # nodes[i].name
         THEN /\ IsExpanded(nodes[i]) /\ ~IsStub(nodes[i])
              /\ nodes[i].source_lines = Get(chunks, nodes[i].name, <<>>)
         ELSE /\ IsStub(nodes[i]) /\ ~IsExpanded(nodes[i])
              /\ DOMAIN nodes[i] \subseteq {"name", "ref", "seq"}

\* the tree of a flow with a call cycle and with a callee that two parents
\* call: some name occurs three times, once expanded and twice as a stub
C11_Witness ==
  /\ nested # NoTree
  /\ \E a, b \in visited : InCycle(a, b)
  /\ LET nodes == Preorder(nested)
     IN \E i, j, k \in 1..Len(nodes) :
          /\ i < j /\ j < k
          /\ nodes[i].name = nodes[j].name /\ nodes[j].name = nodes[k].name
          /\ IsExpanded(nodes[i]) /\ nodes[i].source_lines # <<>>
          /\ IsStub(nodes[j]) /\ IsStub(nodes[k])

\* C12: in the nested tree the children of every expanded node are the names
\* of flow[parent] in order, and every child, expanded or stub, has a seq
\* field equal to its 1-indexed position, so the seq values are 1, 2, ..., n.
C12_SeqIsPosition ==
  nested # NoTree =>
    LET nodes == Preorder(nested)
    IN \A i \in 1..Len(nodes) :
         IsExpanded(nodes[i]) =>
           /\ Len(nodes[i].calls) = Len(Get(flow, nodes[i].name, <<>>))
           /\ \A k \in 1..Len(nodes[i].calls) :
                /\ "seq" \in DOMAIN nodes[i].calls[k]
                /\ nodes[i].calls[k].seq = k
                /\ nodes[i].calls[k].name = flow[nodes[i].name][k]

\* a tree with a parent of three children whose second or third child is a
\* reference stub
C12_Witness ==
  /\ nested # NoTree
  /\ LET nodes == Preorder(nested)
     IN \E i \in 1..Len(nodes) :
          /\ IsExpanded(nodes[i])
          /\ Len(nodes[i].calls) = 3
          /\ \E k \in 2..3 : IsStub(nodes[i].calls[k])
          /\ \E k \in 1..3 : IsExpanded(nodes[i].calls[k])

\* the line of the block that was scanned at step i
ScannedLine(i) == parent.lines[i]

\* the loop of _find_calls_ordered returns what the one-pass operator computes
ScanIsFindCallsOrdered ==
  pc = "scanned" => calls = FindCallsOrdered(parent.lines, macros, parent.name)

\* L with one operand that is a register alias or a bare integer
IsRegisterLoad(l) ==
  l.label = "" /\ l.op = "L" /\ Len(l.args) = 1 /\ l.args[1].k \in {"reg", "num"}

\* C13 as stated: a line L <register alias> (R0..R15 or a bare integer)
\* appends no event at all to the result of the target extractor.
C13_RegisterLoadNoEvent ==
  \A i \in 1..Len(emitted) :
    (pc \in {"scan", "scanned"} /\ IsRegisterLoad(ScannedLine(i))) => emitted[i] = <<>>

\* C13, amended: a line L <register alias> never appends a direct event and
\* never offers its operand as a target.  It appends no event at all unless
\* L is the name of a cataloged macro other than the parent; then the only
\* event it can append is the macro event for L, with no targets.
C13_RegisterLoadNoTarget ==
  \A i \in 1..Len(emitted) :
    (pc \in {"scan", "scanned"} /\ IsRegisterLoad(ScannedLine(i))) =>
      /\ \A k \in 1..Len(emitted[i]) :
           /\ emitted[i][k].ev = MacroEv("L", <<>>)
           /\ "L" \in DOMAIN macros
           /\ parent.name # "L"
      /\ Len(emitted[i]) <= 1
      /\ ("L" \notin DOMAIN macros) => emitted[i] = <<>>

\* both a register-prefixed token and a bare integer have been scanned
\* after a plain link line that did append its target, with no macro L
C13_Witness ==
  /\ pc = "scanned"
  /\ "L" \notin DOMAIN macros
  /\ Len(emitted) = 2
  /\ ScannedLine(1) = Ln("", "L", <<Sym("A")>>)
  /\ emitted[1] # <<>>
  /\ ScannedLine(2) = Ln("", "L", <<Tok("reg", "R5")>>)
  /\ emitted[2] = <<>>

\* the files (positions in search order) in which a strategy matches A
MatchFiles(strategy) ==
  {k \in 1..Len(files) :
     IF strategy = "book" THEN k >= 2 /\ Upper(files[k].stem) = "A"
     ELSE \E i \in 1..Len(files[k].lines) :
            /\ files[k].lines[i].label = "A"
            /\ files[k].lines[i].op = (IF strategy = "in" THEN "IN"
                                       ELSE IF strategy = "equ" THEN "EQU" ELSE "CSECT")}

Strategies == <<"in", "equ", "cs", "book">>

\* every file in which some strategy matches A
AnyMatchFiles == UNION {MatchFiles(Strategies[n]) : n \in 1..4}

\* the chunk of A was cut from file k
ChunkFrom(k) == "A" \in DOMAIN chunks /\ Mark(files[k].stem) \in Range(chunks["A"])

\* run has returned and A was a target
SearchedA == pc = "done" /\ "A" \in Range(resolve_log)

\* C14 as stated: when A can be matched in more than one file, the block
\* taken is the one from the earliest file, in search order, that matches.
C14_EarliestFileWins ==
  (SearchedA /\ AnyMatchFiles # {}) => ChunkFrom(SetMin(AnyMatchFiles))

\* C14, amended: the strategies are tried one after the other, each over all
\* files (IN block, then anchor table, then CSECT, then copybook file under
\* deps_dir); the block taken is the one from the earliest file, in search
\* order, in which the first strategy that matches anywhere matches.  A
\* match of a later strategy in an earlier file does not win.
C14_EarliestFilePerStrategy ==
  SearchedA =>
    IF AnyMatchFiles = {} THEN "A" \in Range(missing) /\ "A" \notin DOMAIN chunks
    ELSE LET n == SetMin({m \in 1..4 : MatchFiles(Strategies[m]) # {}})
             k == SetMin(MatchFiles(Strategies[n]))
         IN /\ ChunkFrom(k)
            /\ \A j \in 1..Len(files) : j # k => ~ChunkFrom(j)

\* A has an IN block in LIB1 and in LIB2 and a CSECT in the driver, and the
\* chunk is the block of LIB1
C14_Witness ==
  /\ SearchedA
  /\ Cardinality(MatchFiles("in")) = 2
  /\ 1 \in MatchFiles("cs")
  /\ 1 \notin MatchFiles("in")
  /\ ChunkFrom(SetMin(MatchFiles("in")))

\* C15: a failure to read a file during a run (the entry file, or a file
\* read for the macro catalog, the alias table or a target search) is caught
\* where it happens and never reaches the caller of run: run never ends
\* with an exception.
C15_ReadFailureNeverPropagates == pc # "raised"

\* C16: the targets of a macro event are all symbolic operands of the call
\* only if the macro has no call parameters; for a macro that has call
\* parameters they are only the symbolic operands bound to call parameters.
C16_FallbackOnlyWithoutCallParams ==
  AtMacroEvent =>
    \E i \in CallLinesOf(Head(calls)) :
      Range(Head(calls).targets) =
        IF macros[Head(calls).name].call_params = <<>>
        THEN SymbolsAt(parent.lines[i], AllPositions(parent.lines[i]))
        ELSE SymbolsAt(parent.lines[i], BoundAt(macros[Head(calls).name], parent.lines[i]))

\* the categories in the order in which the extractor tries them
Priority == <<"jump", "macro", "call", "copy", "dispatch", "alias">>

\* the categories whose line shape line l has, each taken on its own
CatsOf(l) ==
  LET st == SplitStatement(l)
      op_u == Upper(st.opcode)
  IN {c \in Range(Priority) :
        IF c = "jump"
        THEN ~IsComment(l) /\ (\/ GoTarget(l) # ""
                               \/ VLinkTarget(l) # ""
                               \/ (LinkTarget(l) # "" /\ l.args[1].k # "reg"))
        ELSE IF c = "macro" THEN op_u \in DOMAIN macros /\ op_u # Upper(parent.name)
        ELSE IF c = "call"
             THEN op_u \in {"LOAD", "XCTL", "LINK", "CALL", "CALLR"} /\ st.operands # <<>>
        ELSE IF c = "copy" THEN op_u = "COPY" /\ st.operands # <<>>
        ELSE IF c = "dispatch"
             THEN /\ Len(st.operands) >= 4
                  /\ \A k \in {1, 2, 4} : st.operands[k].k = "num"
                  /\ st.operands[3].k = "sym"
        ELSE op_u = "EQU" /\ st.operands # <<>> /\ st.operands[1].k = "sym"}

\* the first category, in priority order, among those of S
FirstCat(S) == Priority[SetMin({n \in 1..Len(Priority) : Priority[n] \in S})]

\* C17: every line scanned contributes events of at most one category, and
\* that category is the first one, in the order direct-jump forms, macro
\* invocation, dynamic/static call, copy, dispatch-table row, alias row,
\* whose shape the line has; a line with none of the shapes contributes
\* nothing.
C17_OneCategoryPerLine ==
  pc \in {"scan", "scanned"} =>
    \A i \in 1..Len(emitted) :
      /\ \A j, k \in 1..Len(emitted[i]) : emitted[i][j].cat = emitted[i][k].cat
      /\ \A k \in 1..Len(emitted[i]) :
           /\ CatsOf(ScannedLine(i)) # {}
           /\ emitted[i][k].cat = FirstCat(CatsOf(ScannedLine(i)))

\* a block whose first line has the shape of a macro call and of a dispatch
\* row and yields the macro event only, and whose second line has the shape
\* of a plain link and of a call of macro L and yields the link only
C17_Witness ==
  /\ pc = "scanned"
  /\ Len(emitted) = 2
  /\ {"macro", "dispatch"} \subseteq CatsOf(ScannedLine(1))
  /\ Len(emitted[1]) = 1 /\ emitted[1][1].cat = "macro"
  /\ {"jump", "macro"} \subseteq CatsOf(ScannedLine(2))
  /\ Len(emitted[2]) = 1 /\ emitted[2][1].cat = "jump"

\* the definitions of M in file k, top to bottom: the positions of their
\* MACRO lines
DefSites(k) == {i \in 1..Len(files[k].lines) : files[k].lines[i] = Ln("", "MACRO", <<>>)}

\* the files that hold a definition of M
DefFiles == {k \in 1..Len(files) : DefSites(k) # {}}

\* the first definition of M in search order: its file, and its lines from
\* MACRO to the next MEND
FirstDefFile == SetMin(DefFiles)

FirstDefLines ==
  LET ls == files[FirstDefFile].lines
      i == SetMin(DefSites(FirstDefFile))
  IN SubSeq(ls, i, SetMin({j \in i..Len(ls) : ls[j] = Ln("", "MEND", <<>>)}))

\* the formal parameters and the call parameters of the three definitions
ParamsOfDef(lines) ==
  IF lines = MacroPlain THEN <<"&P1">> ELSE <<"&P1", "&P2">>

CallParamsOfDef(lines) ==
  IF lines = MacroCallParam THEN <<"&P2">>
  ELSE IF lines = MacroFirstParam THEN <<"&P1">>
  ELSE <<>>

\* the number of definitions of M in the searchable files
DefCount ==
  Cardinality(DefSites(1)) + Cardinality(DefSites(2)) + Cardinality(DefSites(3))

\* C18: once the catalog is built, and to the end of the run, the entry of M
\* is the first definition of M in search order (driver first, then the
\* dependency files in order, top to bottom within a file): its source
\* file, its lines, its parameters and its call parameters; the chunk of M
\* holds its lines.  With no definition there is no entry.
C18_FirstDefinitionWins ==
  pc \in {"loop", "calls", "done"} =>
    IF DefFiles = {} THEN "M" \notin DOMAIN macros
    ELSE /\ "M" \in DOMAIN macros
         /\ macros["M"].source_file = files[FirstDefFile].stem
         /\ macros["M"].lines = FirstDefLines
         /\ macros["M"].parameters = ParamsOfDef(macros["M"].lines)
         /\ macros["M"].call_params = CallParamsOfDef(macros["M"].lines)
         /\ chunks["M"] = macros["M"].lines

\* M has three different definitions, two in the driver and one in a
\* dependency file, and the run has returned with the first one cataloged
C18_Witness ==
  /\ pc = "done"
  /\ DefCount >= 3
  /\ Cardinality(DefSites(1)) = 2
  /\ macros["M"].lines = MacroFirstParam
  /\ \E k \in 2..Len(files) : files[k].lines = MacroCallParam
  /\ flow["M"] = <<"A">>

\* the name reached from n after k steps along the alias table
RECURSIVE Follow(_, _)
Follow(n, k) == IF k = 0 THEN n ELSE equ_aliases[Follow(n, k - 1)]

\* C19: alias resolution of any name returns, for every alias table; when
\* it returns, cur is the name reached by following the table from the
\* argument through the names of seen, each walked once, and cur is either
\* unmapped or the first name of the walk that repeats.
C19_AliasResolutionTerminates ==
  /\ <>(pc = "returned")
  /\ [](pc = "returned" =>
         /\ cur \notin DOMAIN equ_aliases \/ cur \in seen
         /\ seen = {Follow(Upper(alias_name), k) : k \in 0..(Cardinality(seen) - 1)}
         /\ cur = Follow(Upper(alias_name), Cardinality(seen)))

\* the walk from C went through A and B and stopped at A, which repeats
C19_Witness ==
  /\ pc = "returned"
  /\ alias_name = "C"
  /\ seen = {"A", "B", "C"}
  /\ cur = "A"
  /\ equ_aliases["B"] = "A"

\* the line of the driver with label A and opcode IN
InLineOfA == SetMin({i \in 1..Len(files[1].lines) : files[1].lines[i] = Ln("A", "IN", <<>>)})

\* an exit-marker line: the opcode is OUT
IsExitMarker(l) == l.label # "*" /\ l.op = "OUT"

\* an explicit-marker line: a label and the opcode IN
IsEntryMarker(l) == IsIdent(l.label) /\ l.op = "IN"

\* the extent the claim gives the block of A: to the first exit-marker line
\* (included) when it comes before the next entry-marker line, else to just
\* before the next entry-marker line, else to the end of the file
MarkerBlockOfA ==
  LET ls == files[1].lines
      S == {j \in (InLineOfA + 1)..Len(ls) : IsExitMarker(ls[j]) \/ IsEntryMarker(ls[j])}
  IN IF S = {} THEN SubSeq(ls, InLineOfA, Len(ls))
     ELSE IF IsExitMarker(ls[SetMin(S)]) THEN SubSeq(ls, InLineOfA, SetMin(S))
     ELSE SubSeq(ls, InLineOfA, SetMin(S) - 1)

\* C20: the block of a name starts at its IN line and extends to the
\* matching OUT line, included; with no OUT line it stops just before the
\* next IN line, or at the end of the file with all remaining lines.
C20_MarkerBlockExtent ==
  (pc = "done" /\ "A" \in DOMAIN chunks) => chunks["A"] = MarkerBlockOfA

\* the first line of the driver with label A and opcode CSECT
CsectLineOfA ==
  SetMin({i \in 1..Len(files[1].lines) : files[1].lines[i] = Ln("A", "CSECT", <<>>)})

\* an alignment-directive line: DS with a zero-length aligned operand
IsAlignment(l) == l.label # "*" /\ l.op = "DS" /\ Len(l.args) >= 1 /\ l.args[1].k = "align"

\* the start of a section other than A
IsOtherSection(l) == IsIdent(l.label) /\ l.label # "A" /\ l.op = "CSECT"

\* an end-of-program directive
IsEnd(l) == l.label # "*" /\ l.op = "END"

\* a page-break directive
IsPageBreak(l) == l.label # "*" /\ l.op = "EJECT"

\* the extent the claim gives the section of A: to the first stop line,
\* which is included when it is an alignment or an end-of-program directive
\* and excluded when it starts another section or is a page break; to the
\* end of the file when there is no stop line
SectionBlockOfA ==
  LET ls == files[1].lines
      S == {j \in (CsectLineOfA + 1)..Len(ls) :
              IsAlignment(ls[j]) \/ IsOtherSection(ls[j]) \/ IsEnd(ls[j]) \/ IsPageBreak(ls[j])}
      j == SetMin(S)
  IN IF S = {} THEN SubSeq(ls, CsectLineOfA, Len(ls))
     ELSE IF IsAlignment(ls[j]) THEN SubSeq(ls, CsectLineOfA, j)
     ELSE IF IsOtherSection(ls[j]) THEN SubSeq(ls, CsectLineOfA, j - 1)
     ELSE IF IsEnd(ls[j]) THEN SubSeq(ls, CsectLineOfA, j)
     ELSE SubSeq(ls, CsectLineOfA, j - 1)

\* C21: the section block of a name starts at its CSECT line and extends to
\* the first alignment directive (included), start of a different section
\* (excluded), end-of-program directive (included) or page-break directive
\* (excluded), or to the end of the file.
C21_SectionBlockExtent ==
  (pc = "done" /\ "A" \in DOMAIN chunks) => chunks["A"] = SectionBlockOfA

\* the anchor line of A in the driver
EquLineOfA ==
  SetMin({i \in 1..Len(files[1].lines) :
            files[1].lines[i].label = "A" /\ files[1].lines[i].op = "EQU"})

\* the right-hand side of the anchor line is a plain symbol
IsAliasRow(l) == Len(l.args) = 1 /\ l.args[1].k = "sym"

\* the extent the claim gives the anchor block of A
AnchorBlockOfA ==
  LET ls == files[1].lines
      S == {j \in (EquLineOfA + 1)..Len(ls) : IsPageBreak(ls[j])}
  IN IF IsAliasRow(ls[EquLineOfA]) THEN <<ls[EquLineOfA]>>
     ELSE IF S = {} THEN SubSeq(ls, EquLineOfA, Len(ls))
     ELSE SubSeq(ls, EquLineOfA, SetMin(S))

\* C22: the block of an anchor-table match is the anchor line alone when its
\* right-hand side is a plain symbol, and for every other right-hand side it
\* extends from the anchor line to the first page-break directive, included,
\* or to the end of the file.
C22_AnchorBlockExtent ==
  (pc = "done" /\ "A" \in DOMAIN chunks) => chunks["A"] = AnchorBlockOfA

\* the quote that is open and the parenthesis depth after the first i
\* characters of t
RECURSIVE StateAfter(_, _)
StateAfter(t, i) ==
  IF i = 0 THEN [quote |-> "", depth |-> 0]
  ELSE LET b == StateAfter(t, i - 1)
           ch == t[i]
       IN IF b.quote # "" THEN [b EXCEPT !.quote = IF ch = b.quote THEN "" ELSE b.quote]
          ELSE IF ch \in {"'", "\""} THEN [b EXCEPT !.quote = ch]
          ELSE IF ch = "(" THEN [b EXCEPT !.depth = b.depth + 1]
          ELSE IF ch = ")" /\ b.depth > 0 THEN [b EXCEPT !.depth = b.depth - 1]
          ELSE b

\* character i of t is outside every quoted literal and every parenthesis
TopLevel(t, i) == StateAfter(t, i - 1) = [quote |-> "", depth |-> 0]

\* the commas of t that separate top-level operands
TopCommas(t) == {i \in 1..Len(t) : t[i] = "," /\ TopLevel(t, i)}

\* t up to its first top-level blank, where the operand field ends
OperandField(t) ==
  LET B == {i \in 1..Len(t) : IsSpace(t[i]) /\ TopLevel(t, i)}
  IN IF B = {} THEN t ELSE SubSeq(t, 1, SetMin(B) - 1)

\* the k-th top-level operand of t: the text between two successive
\* top-level commas
TopOperand(t, k) ==
  LET C == TopCommas(t)
      Left == {i \in C : Cardinality({j \in C : j < i}) = k - 2}
      Right == {i \in C : Cardinality({j \in C : j < i}) = k - 1}
      lo == IF Left = {} THEN 1 ELSE SetMin(Left) + 1
      hi == IF Right = {} THEN Len(t) ELSE SetMin(Right) - 1
  IN SubSeq(t, lo, hi)

TopOperands(t) == [k \in 1..(Cardinality(TopCommas(t)) + 1) |-> TopOperand(t, k)]

\* p without its leading and trailing blanks
Trimmed(p) ==
  LET N == {i \in 1..Len(p) : ~IsSpace(p[i])}
  IN IF N = {} THEN <<>>
     ELSE SubSeq(p, SetMin(N), CHOOSE i \in N : \A j \in N : j <= i)

\* the top-level operands of t, trimmed, the empty ones left out
Operands(t) ==
  LET all == TopOperands(t)
  IN SelectSeq([k \in 1..Len(all) |-> Trimmed(all[k])], LAMBDA o : o # <<>>)

\* ",".join(ops)
RECURSIVE JoinCommas(_)
JoinCommas(ops) ==
  IF ops = <<>> THEN <<>>
  ELSE IF Len(ops) = 1 THEN ops[1]
  ELSE ops[1] \o <<",">> \o JoinCommas(Tail(ops))

\* every top-level operand of t is non-empty and has no blank around it
AllPresent(t) ==
  \A k \in 1..Len(TopOperands(t)) :
    TopOperands(t)[k] # <<>> /\ Trimmed(TopOperands(t)[k]) = TopOperands(t)[k]

\* ops splits t at its top-level commas and joins back to t
SplitsAndRejoins(ops, t) ==
  /\ Len(ops) = Cardinality(TopCommas(t)) + 1
  /\ JoinCommas(ops) = t

\* C23 as stated: for every operand list, each splitter returns one operand
\* per top-level comma plus one, and joining the returned operands with
\* commas gives the operand text back.
C23_SplitRejoinsEveryText ==
  /\ (split_out.run /\ op_text # <<>>) => SplitsAndRejoins(split_out.val, op_text)
  /\ (parse_out.run /\ op_text # <<>>) => SplitsAndRejoins(parse_out.val, op_text)

\* C23: a comma inside a quoted literal or inside parentheses never splits:
\* each splitter returns the trimmed, non-empty top-level operands
\* (_split_operands those of the text up to its first top-level blank); when
\* every top-level operand is present and has no blank around it, there is
\* one operand per top-level comma plus one and joining them with commas
\* gives the text back.
C23_SplitAtTopLevelCommas ==
  /\ split_out.run =>
       /\ split_out.val = Operands(OperandField(op_text))
       /\ (OperandField(op_text) # <<>> /\ AllPresent(OperandField(op_text)))
            => SplitsAndRejoins(split_out.val, OperandField(op_text))
  /\ parse_out.run =>
       /\ parse_out.val = Operands(op_text)
       /\ (op_text # <<>> /\ AllPresent(op_text))
            => SplitsAndRejoins(parse_out.val, op_text)

\* both splitters have split a text with a comma inside a quoted literal and
\* a top-level comma
C23_Witness ==
  /\ op_text = <<"'", ",", "'", ",", "A">>
  /\ split_out.run /\ split_out.val = << <<"'", ",", "'">>, <<"A">> >>
  /\ parse_out.run /\ parse_out.val = split_out.val

\* the label zone of a line holds a label: it is not blank, not the no-op
\* keyword, not a comment or parameter marker, does not start with a blank,
\* and the line is no embedded-query line
HasPlainLabel(line) ==
  /\ line.zone \notin {"", "SORTED", "*", "&P", " LBL"}
  /\ line.zone # "EXEC SQL"

\* a section-directive line: its operation is CSECT or DSECT
IsSectionDirective(line) == line.rest # <<>> /\ line.rest[1] \in {"CSECT", "DSECT"}

\* the lines taken so far that have to start a block
BlockLines ==
  SelectSeq(SubSeq(lines_in, 1, line_no),
            LAMBDA l : HasPlainLabel(l) /\ ~IsSectionDirective(l))

\* the named blocks of the root
NamedBlocks == SelectSeq(root, LAMBDA e : e.element_type = "LABELLED_BLOCK")

\* C24: every line with a non-blank, non-special label that is not a
\* section-directive line starts a new block that is a direct child of the
\* root and becomes the current block, and a section-directive line starts
\* none: the named blocks of the root are exactly those lines, in source
\* order, no block is nested in a block, and the current block is the last
\* one started.
C24_BlocksAreLabelledLines ==
  /\ Len(NamedBlocks) = Len(BlockLines)
  /\ \A k \in 1..Len(NamedBlocks) : NamedBlocks[k].label = BlockLines[k].zone
  /\ \A k \in 1..Len(root) : \A j \in 1..Len(root[k].children) :
       root[k].children[j].element_type # "LABELLED_BLOCK"
  /\ IF BlockLines = <<>> THEN current = 0
     ELSE /\ current \in 1..Len(root)
          /\ root[current].element_type = "LABELLED_BLOCK"
          /\ \A k \in (current + 1)..Len(root) : root[k].element_type # "LABELLED_BLOCK"

\* the names a run of the model can visit
RunNames == {"main", "A", "B", "M"}

\* n was stored as a chunk by the traversal, or is a macro that was invoked
Traversed(n) == n \in visited /\ (n \in DOMAIN chunks \/ n \in DOMAIN macros)

\* C27: every block stored as a resolved chunk during the traversal, and
\* every invoked macro, is eventually dequeued and scanned, exactly once and
\* before run returns; run returns only when the queue is empty.
\* (a traversed name stays traversed, so from any moment at which n is
\* traversed a later moment follows at which n has been scanned once.)
C27_StoredIsScannedOnce ==
  /\ <>[](\A n \in RunNames : Traversed(n) => Count(scan_log, n) = 1)
  /\ [][\A n \in RunNames : Traversed(n) => Traversed(n)']_vars
  /\ [](visited \subseteq RunNames)
  /\ [](\A n \in visited : Count(scan_log, n) <= 1)
  /\ [](pc = "done" =>
          /\ queue = <<>>
          /\ \A n \in RunNames : Traversed(n) => Count(scan_log, n) = 1)

\* a finished run that invoked the macro and stored another block, each
\* scanned once
C27_Witness ==
  /\ pc = "done"
  /\ "M" \in visited /\ "M" \in DOMAIN macros /\ Count(scan_log, "M") = 1
  /\ \E n \in visited \ {"main", "M"} : n \in DOMAIN chunks /\ Count(scan_log, n) = 1

\* C30: after a dequeued block has been fully processed the flow map is
\* closed: every name in a child list is a key of flow, and missing names
\* and leaves (scanned blocks, other than macros, that call nothing) map to
\* the empty list.
C30_FlowIsClosed ==
  (pc \in {"loop", "done"}) =>
    /\ \A p \in DOMAIN flow : Range(flow[p]) \subseteq DOMAIN flow
    /\ \A m \in Range(missing) : m \in DOMAIN flow /\ flow[m] = <<>>
    /\ \A n \in Range(scan_log) \ DOMAIN macros :
         FindCallsOrdered(chunks[n], macros, n) = <<>> => (n \in DOMAIN flow /\ flow[n] = <<>>)

\* a block has been fully processed and its child list holds a missing name
\* and a block that calls nothing
C30_Witness ==
  /\ pc = "loop"
  /\ \E p \in Range(scan_log) : \E m, n \in Range(flow[p]) :
       /\ m \in Range(missing)
       /\ n \in DOMAIN chunks /\ FindCallsOrdered(chunks[n], macros, n) = <<>>

\* C28: for every graph built by add_call_dependency calls, cycles and
\* self-loops included, get_all_dependencies returns the same set on the
\* NetworkX path and on the BFS fallback.
C28_BothPathsAgree ==
  all_deps.run =>
    /\ all_deps.val = GetAllDependencies(all_deps.graph, all_deps.program, TRUE)
    /\ all_deps.val = GetAllDependencies(all_deps.graph, all_deps.program, FALSE)

\* the existing files a chain of resolvable dependencies leads to from the
\* set S of files
RECURSIVE FilesReached(_)
FilesReached(S) ==
  LET Deps(f) == {disk[f][i].dependencies[j] :
                    <<i, j>> \in {<<i, j>> \in (1..Len(disk[f])) \X (1..2) :
                                    j <= Len(disk[f][i].dependencies)}}
      more == S \cup ({ResolveDependency(disk, d) : d \in UNION {Deps(f) : f \in S}}
                      \ {NoPath})
  IN IF more = S THEN S ELSE FilesReached(more)

\* every existing file reachable from the root has an entry in results
AllReachedAnalysed ==
  \A f \in FilesReached({Path("A", ".asm")} \cap DOMAIN disk) :
    f \in DOMAIN results /\ results[f] = disk[f]

\* C25: exceeding the maximum depth stops descending the branch and nothing
\* else: the call that is too deep returns at once, no exception reaches the
\* caller, and every result collected so far is kept, then and until
\* analyze_with_dependencies returns.
C25_DepthLimitKeepsResults ==
  [][ /\ \A f \in DOMAIN results : f \in DOMAIN results' /\ results'[f] = results[f]
      /\ (an_pc = "running" /\ stack[Len(stack)].depth > MAX_DEPTH) =>
            /\ results' = results
            /\ missing_deps' = missing_deps
            /\ stack' = Pop(stack)
            /\ an_pc' = "running"
      /\ an_pc' \in {"running", "returned"} ]_vars

\* a call has returned although the depth limit was hit, with the 21 files
\* above the limit in results
C25_Witness ==
  /\ an_pc = "returned"
  /\ depth_log # <<>>
  /\ Cardinality(DOMAIN results) >= MAX_DEPTH + 1

C29_NoMissingIsKnownLabel ==
  an_pc = "returned" =>
    \A i \in 1..Len(missing_deps) :
      Upper(missing_deps[i].dep_name) \notin KnownLabels(results)

====
